---------------------------- MODULE Spec2Model ----------------------------
(***************************************************************************)
(* pwgen: a random string generator.  The model follows src/src/gensyms.c  *)
(* (symbol set catalog, linked list, main, configure, activate_symbols,    *)
(* usage, get_RNG_seed) and src/src/random.c (rand_lt, str_randomize).     *)
(*                                                                         *)
(* C strings are sequences of byte values; a buffer in memory carries its  *)
(* terminating 0 byte, and Indet marks a byte that was allocated but never *)
(* written.  A size_t that holds a negative int n stands for n + 2^64.     *)
(***************************************************************************)
EXTENDS Integers, Sequences, FiniteSets, TLC

(***************************************************************************)
(* Bounds of the model.                                                    *)
(***************************************************************************)
\* longest command line (number of option and non-option arguments)
MaxArgs == 2
\* number of seeds srand may be given
MaxSeed == 2
\* largest RAND_MAX of the stand-alone rand_lt runs
MaxRandMax == 9
\* the rejected draws of one rand_lt call are counted up to this number
MaxRejects == 2
\* longest byte string handed to a stand-alone activate_symbols call
MaxSrcLen == 2
\* longest command line of the runs of configure on symbol arguments alone
MaxPoolArgs == 3
\* largest char_count of a stand-alone str_randomize call
MaxStrLen == 2
\* longest list handed to a stand-alone list_seek call
MaxListLen == 3

(***************************************************************************)
(* Program constants.                                                      *)
(***************************************************************************)
\* stdlib.h of the C library the Makefile's gcc builds against
RAND_MAX == 2147483647
DEFAULT_pwcount == 1
DEFAULT_pwlen == 8
DEFAULT_seed_file == "/dev/urandom"
\* the default symbol set with the bug of naming the set that holds the space
DEFAULT_symbols_with_space == "asciip"

DEFAULT_symbols == "asciipns"
\* char syms[128]
SymsSize == 128
\* a byte that was allocated but not written yet
Indet == -1

(***************************************************************************)
(* C strings.                                                              *)
(***************************************************************************)
Min(a, b) == IF a <= b THEN a ELSE b

Max(a, b) == IF a >= b THEN a ELSE b

\* number of bytes before the first 0 byte (the whole buffer if none)
strlen(s) ==
  IF \E k \in 1..Len(s) : s[k] = 0
  THEN (CHOOSE k \in 1..Len(s) : s[k] = 0 /\ \A m \in 1..(k-1) : s[m] # 0) - 1
  ELSE Len(s)

\* the bytes of the C string held in buffer s, without the terminator
CStr(s) == SubSeq(s, 1, strlen(s))

\* dest with the n bytes of src written from 0-based offset off on;
\* a write past the end of dest does not land in dest
MemWrite(dest, off, src) ==
  IF off >= Len(dest) THEN dest
  ELSE SubSeq(dest, 1, off)
         \o SubSeq(src, 1, Min(Len(src), Len(dest) - off))
         \o SubSeq(dest, off + Len(src) + 1, Len(dest))

\* strcpy(dest + off, src): the string in src and its terminator
strcpy(dest, off, src) == MemWrite(dest, off, Append(CStr(src), 0))

\* strcat with the bug of copying src to the start of dest
strcat_overwrite(dest, src) == strcpy(dest, 0, src)

\* strcat(dest, src): src is copied over the terminator of dest
strcat(dest, src) == strcpy(dest, strlen(dest), src)

\* strncpy(dest, src, n): at most n bytes, padded with zeroes
strncpy(dest, src, n) ==
  MemWrite(dest, 0, [k \in 1..n |-> IF k <= strlen(src) THEN src[k] ELSE 0])

\* malloc(n): n bytes, none of them written
malloc(n) == [k \in 1..n |-> Indet]

\* calloc(n, 1): n zero bytes
calloc(n) == [k \in 1..n |-> 0]

\* realloc(p, n): the old bytes up to the smaller size, the rest unwritten
realloc(p, n) == [k \in 1..n |-> IF k <= Len(p) THEN p[k] ELSE Indet]

(***************************************************************************)
(* gensyms.c: fill_ascii_range.                                            *)
(***************************************************************************)
\* the loop with the bug of < for <=
fill_loop_exclusive(dest, off, first, last) ==
  LET n == IF first < last THEN last - first ELSE 0
  IN  [dest |-> MemWrite(dest, off, [k \in 1..n |-> first + k - 1]),
       i |-> n]

\* for (i = 0; first + i <= last; ++i) dest[i] = first + i;
\* the loop runs for i = 0 .. last - first, and not at all if first > last
fill_loop(dest, off, first, last) ==
  LET n == IF first <= last THEN last - first + 1 ELSE 0
  IN  [dest |-> MemWrite(dest, off, [k \in 1..n |-> first + (k - 1)]),
       i |-> n]

\* fill_ascii_range with the bug of asserting first <= last in place of the
\* number of bytes written
fill_ascii_range_asserts_order(dest, off, first, last) ==
  LET res == fill_loop(dest, off, first, last)
  IN  [dest |-> res.dest, ret |-> res.i, assert |-> (first <= last)]

\* fill_ascii_range(dest + off, first, last): the buffer, the count returned
\* and whether assert(last - first + 1 == i) holds
fill_ascii_range(dest, off, first, last) ==
  LET res == fill_loop(dest, off, first, last)
  IN  [dest |-> res.dest, ret |-> res.i, assert |-> (last - first + 1 = res.i)]

(***************************************************************************)
(* llist.c: mknode, list_append, list_seek.  A list is the sequence of its *)
(* nodes in link order; NULL is the empty sequence and a position is the   *)
(* 1-based index of a node (0 for NULL).                                   *)
(***************************************************************************)
\* mknode with the bug of counting the terminator in size
mknode_counts_terminator(name, symbols, size) ==
  [name |-> name,
   data |-> MemWrite(strncpy(malloc(size + 1), symbols, size), size, <<0>>),
   size |-> size + 1]

\* the node mknode allocates: size + 1 bytes of data, the first size bytes
\* of symbols and a terminator after them
mknode(name, symbols, size) ==
  [name |-> name,
   data |-> MemWrite(strncpy(malloc(size + 1), symbols, size), size, <<0>>),
   size |-> size]

\* list_append with the bug of putting the new node in front
list_append_front(llist, new_node) == <<new_node>> \o llist

\* the new node is linked after the last node of the list
list_append(llist, new_node) == Append(llist, new_node)

\* list_seek with the bug of searching from the root of the list
list_seek_from_root(llist, pos, key) ==
  IF \E p \in 1..Len(llist) : llist[p].name = key
  THEN CHOOSE p \in 1..Len(llist) :
         llist[p].name = key /\ \A q \in 1..(p-1) : llist[q].name # key
  ELSE 0

\* index of the first node at or after pos whose name is key, 0 if none
list_seek(llist, pos, key) ==
  IF pos >= 1 /\ \E p \in pos..Len(llist) : llist[p].name = key
  THEN CHOOSE p \in pos..Len(llist) :
         llist[p].name = key /\ \A q \in pos..(p-1) : llist[q].name # key
  ELSE 0

(***************************************************************************)
(* gensyms.c: init_symbol_sets.                                            *)
(***************************************************************************)
\* the one element of the set S
TheOne(S) == CHOOSE x \in S : TRUE

\* the number of bytes of syms that the writes so far reach over, after a
\* write of n bytes at offset off: one more than the highest index written,
\* whether or not that index is inside the buffer
WriteTop(top, off, n) == IF n = 0 THEN top ELSE Max(top, off + n)

\* the state of init_symbol_sets with the bug of a buffer of 64 bytes
init_state_short == [llist |-> << >>, syms |-> malloc(64), top |-> 0]

\* the state of init_symbol_sets before any statement: no list, and the
\* buffer syms not written
init_state == [llist |-> << >>, syms |-> malloc(SymsSize), top |-> 0]

\* len = fill_ascii_range(syms, first, last); then the new node is made the
\* root of the empty list, or appended to the list
add_range(prev, name, first, last) ==
  TheOne({LET f == fill_ascii_range(st.syms, 0, first, last)
              node == mknode(name, f.dest, f.ret)
          IN  [llist |-> IF st.llist = << >> THEN <<node>>
                         ELSE list_append(st.llist, node),
               syms |-> f.dest,
               top |-> WriteTop(st.top, 0, f.ret)] : st \in {prev}})

\* the composite with the bug of copying the second set to the start of syms
add_composite_overwrites(prev, name, a, b) ==
  TheOne({LET qa == st.llist[list_seek(st.llist, 1, a)]
              qb == st.llist[list_seek(st.llist, 1, b)]
              s2 == strcpy(strcpy(st.syms, 0, qa.data), 0, qb.data)
          IN  [llist |-> list_append(st.llist, mknode(name, s2, qa.size + qb.size)),
               syms |-> s2,
               top |-> WriteTop(WriteTop(st.top, 0, strlen(qa.data) + 1),
                                0, strlen(qb.data) + 1)] : st \in {prev}})

\* q = list_seek(root, a); strcpy(syms, q->data); len = q->size;
\* q = list_seek(root, b); strcpy(syms + len, q->data); len += q->size;
\* and the new node is appended
add_composite(prev, name, a, b) ==
  TheOne({LET qa == st.llist[list_seek(st.llist, 1, a)]
              qb == st.llist[list_seek(st.llist, 1, b)]
              s2 == strcpy(strcpy(st.syms, 0, qa.data), qa.size, qb.data)
          IN  [llist |-> list_append(st.llist, mknode(name, s2, qa.size + qb.size)),
               syms |-> s2,
               top |-> WriteTop(WriteTop(st.top, 0, strlen(qa.data) + 1),
                                qa.size, strlen(qb.data) + 1)] : st \in {prev}})

\* len = fill_ascii_range(syms, first, last): the buffer and len after it
fill_first(syms, first, last) ==
  TheOne({[syms |-> f.dest, len |-> f.ret, top |-> WriteTop(0, 0, f.ret)] :
            f \in {fill_ascii_range(syms, 0, first, last)}})

\* len += fill_ascii_range(syms + len, first, last)
fill_more(prev, first, last) ==
  TheOne({LET f == fill_ascii_range(st.syms, st.len, first, last)
          IN  [syms |-> f.dest, len |-> st.len + f.ret,
               top |-> WriteTop(st.top, st.len, f.ret)] : st \in {prev}})

\* punctuation with the bug of a second range that runs up to the letter A
add_punct_overlapping(prev, name) ==
  TheOne({LET f == fill_more(fill_more(fill_more(
                     fill_first(st.syms, 33, 47), 58, 65), 91, 96), 123, 126)
          IN  [llist |-> list_append(st.llist, mknode(name, f.syms, f.len)),
               syms |-> f.syms,
               top |-> Max(st.top, f.top)] : st \in {prev}})

\* punctuation: four ranges one after the other, and the new node
add_punct(prev, name) ==
  TheOne({LET f == fill_more(fill_more(fill_more(
                     fill_first(st.syms, 33, 47), 58, 64), 91, 96), 123, 126)
          IN  [llist |-> list_append(st.llist, mknode(name, f.syms, f.len)),
               syms |-> f.syms,
               top |-> Max(st.top, f.top)] : st \in {prev}})

\* the state of init_symbol_sets after its last statement
init_symbol_sets_run ==
  add_punct(
    add_composite(
      add_composite(
        add_composite(
          add_composite(
            add_range(
              add_range(
                add_range(
                  add_range(
                    add_range(init_state, "asciip", 32, 126),
                    "asciipns", 33, 126),
                  "num", 48, 57),
                "ALPHA", 65, 90),
              "alpha", 97, 122),
            "Alpha", "ALPHA", "alpha"),
          "ALNUM", "ALPHA", "num"),
        "alnum", "alpha", "num"),
      "Alnum", "Alpha", "num"),
    "punct")

\* the list init_symbol_sets leaves in *llist_root
init_symbol_sets == init_symbol_sets_run.llist

\* every node is freed and the root is set to NULL
free_symbol_sets(llist) == << >>

(***************************************************************************)
(* The command line.  argv is the list of arguments after the program      *)
(* name: an option with its argument (opt is S, c, l, r, h, v, or ? for an *)
(* option getopt_long does not know) or a non-option argument (opt is      *)
(* empty, text holds its bytes).  name holds the argument of -S and -r,    *)
(* text the argument of -c and -l.                                         *)
(***************************************************************************)
Token(opt, name, text) == [opt |-> opt, name |-> name, text |-> text]

\* -S num, -S ALPHA, -S help, -S nosuch
SelectorArgs == {"num", "ALPHA", "help", "nosuch"}

\* the numerals 0, 2 and -1
NumberArgs == { <<48>>, <<50>>, <<45, 49>> }

\* a file that cannot be opened and one that opens but cannot be read
SeedFileArgs == {"no_such_file", "unreadable"}

\* the non-option arguments: the empty string, 0 and ab
LiteralArgs == { << >>, <<48>>, <<97, 98>> }

Tokens ==
  {Token("S", n, << >>) : n \in SelectorArgs}
    \cup {Token(o, "", t) : o \in {"c", "l"}, t \in NumberArgs}
    \cup {Token("r", f, << >>) : f \in SeedFileArgs}
    \cup {Token(o, "", << >>) : o \in {"h", "v", "?"}}
    \cup {Token("", "", t) : t \in LiteralArgs}

ArgvSet == UNION {[1..n -> Tokens] : n \in 0..MaxArgs}

IsOption(t) == t.opt # ""

IsNonOption(t) == t.opt = ""

\* getopt_long hands out the options in command line order, whatever
\* non-option arguments stand between them
getopt_options(args) == SelectSeq(args, IsOption)

\* the non-option arguments with the bug of handing them out last to first
getopt_nonoptions_reversed(args) ==
  [k \in 1..Len(SelectSeq(args, IsNonOption)) |->
     SelectSeq(args, IsNonOption)[Len(SelectSeq(args, IsNonOption)) + 1 - k]]

\* the arguments argv[optind .. argc-1] once getopt_long has returned -1
getopt_nonoptions(args) == SelectSeq(args, IsNonOption)

IsDigit(c) == c >= 48 /\ c <= 57

RECURSIVE atoi_digits(_, _, _)
\* the value of the digits of s from position k on, after the value acc
atoi_digits(s, k, acc) ==
  IF k <= Len(s) /\ IsDigit(s[k])
  THEN atoi_digits(s, k + 1, 10 * acc + (s[k] - 48))
  ELSE acc

\* atoi: an optional sign and the digits that follow, 0 if there are none
atoi(s) ==
  IF Len(s) >= 1 /\ s[1] = 45 THEN 0 - atoi_digits(s, 2, 0)
  ELSE IF Len(s) >= 1 /\ s[1] = 43 THEN atoi_digits(s, 2, 0)
  ELSE atoi_digits(s, 1, 0)

\* whether fopen(name, "rb") and the fread after it succeed
FileStatus(name) ==
  CASE name = "no_such_file" -> "no_open"
    [] name = "unreadable" -> "no_read"
    [] OTHER -> "ok"

(***************************************************************************)
(* State.                                                                  *)
(***************************************************************************)
VARIABLES
  argv,         \* the command line
  pc,           \* the statement the program is at
  conf,         \* struct Configuration
  optidx,       \* number of options getopt_long has handed out
  argi,         \* number of non-option arguments processed
  out,          \* what was written to stdout, one record per line
  err,          \* what was written to stderr
  exit_status,  \* how the process ended
  srand_calls,  \* number of srand calls
  seed_src,     \* where the seed came from
  password,     \* the buffer the strings are generated in
  i,            \* main's loop counter
  j,            \* str_randomize's loop counter
  upper_bound,  \* rand_lt's argument
  reject_bound, \* rand_lt's reject_bound
  r,            \* rand_lt's r
  ret,          \* rand_lt's return value
  rejects,      \* rejected draws of the current rand_lt call, up to MaxRejects
  rand_max,     \* RAND_MAX of the C library
  rng,          \* state of the C library's generator
  conf2,        \* a second configuration, for comparing activations
  src_x,        \* first byte string of a stand-alone activation
  src_y,        \* second byte string of a stand-alone activation
  act_ret,      \* activate_symbols' return value
  range_first,  \* fill_ascii_range's first, of a stand-alone call
  range_last,   \* fill_ascii_range's last
  range_dest,   \* the buffer fill_ascii_range writes to
  range_ret,    \* fill_ascii_range's return value
  str_before,   \* the buffer of a stand-alone str_randomize call before it
  seek_llist,   \* the list of a stand-alone list_seek call
  seek_pos,     \* list_seek's pos: the position of a node, 0 for NULL
  seek_key,     \* list_seek's key
  seek_ret      \* list_seek's return value

vars == <<argv, pc, conf, optidx, argi, out, err, exit_status, srand_calls,
          seed_src, password, i, j, upper_bound, reject_bound, r, ret,
          rejects, rand_max, rng, conf2, src_x, src_y, act_ret, range_first,
          range_last, range_dest, range_ret, str_before, seek_llist,
          seek_pos, seek_key, seek_ret>>

\* struct Configuration conf = { 0, 0, 0, NULL, NULL, NULL }
conf0 ==
  [pwcount |-> 0, pwlen |-> 0, len_active_symbols |-> 0,
   active_symbols |-> << >>, seed_file |-> "", symbol_sets |-> << >>]

randVars == <<upper_bound, reject_bound, r, ret, rejects>>

genVars == <<password, i, j>>

\* the variables of the stand-alone list_seek call
seekVars == <<seek_llist, seek_pos, seek_key, seek_ret>>

\* no stand-alone call of list_seek is under way
SeekIdle ==
  /\ seek_llist = << >>
  /\ seek_pos = 0
  /\ seek_key = ""
  /\ seek_ret = 0

\* the variables of the stand-alone fill_ascii_range, str_randomize and
\* list_seek calls
aloneVars ==
  <<range_first, range_last, range_dest, range_ret, str_before, seekVars>>

actVars == <<conf2, src_x, src_y, act_ret, aloneVars>>

\* no stand-alone call of fill_ascii_range or str_randomize is under way
AloneIdle ==
  /\ range_first = 0
  /\ range_last = 0
  /\ range_dest = << >>
  /\ range_ret = 0
  /\ str_before = << >>
  /\ SeekIdle

seedVars == <<srand_calls, seed_src, rng>>

\* a line written to stdout or stderr
Line(kind, name, text) == [kind |-> kind, name |-> name, text |-> text]

(***************************************************************************)
(* pwgen.c: activate_symbols.  alloc_ok tells whether realloc succeeds.    *)
(***************************************************************************)
\* activate_symbols with the bug of returning when realloc has failed
activate_symbols_unchecked(c, src, alloc_ok) ==
  LET len == strlen(src)
      new_symbols == realloc(c.active_symbols, c.len_active_symbols + len + 1)
      cat == strcat(new_symbols, src)
      total == c.len_active_symbols + len
  IN  IF alloc_ok
      THEN [conf |-> [c EXCEPT !.len_active_symbols = total,
                               !.active_symbols = cat],
            ret |-> len,
            failed |-> FALSE,
            assert |-> (total < Len(cat) /\ cat[total + 1] = 0)]
      ELSE [conf |-> c, ret |-> len, failed |-> FALSE, assert |-> TRUE]

\* activate_symbols with the bug of leaving out the bytes the pool holds
activate_symbols_unique(c, src, alloc_ok) ==
  LET held == {c.active_symbols[k] : k \in 1..c.len_active_symbols}
      Fresh(b) == b \notin held
      fresh == Append(SelectSeq(CStr(src), Fresh), 0)
      len == strlen(fresh)
      new_symbols == realloc(c.active_symbols, c.len_active_symbols + len + 1)
      cat == strcat(new_symbols, fresh)
      total == c.len_active_symbols + len
  IN  IF alloc_ok
      THEN [conf |-> [c EXCEPT !.len_active_symbols = total,
                               !.active_symbols = cat],
            ret |-> len,
            failed |-> FALSE,
            assert |-> (total < Len(cat) /\ cat[total + 1] = 0)]
      ELSE [conf |-> [c EXCEPT !.active_symbols = << >>],
            ret |-> 0,
            failed |-> TRUE,
            assert |-> TRUE]

activate_symbols(c, src, alloc_ok) ==
  LET len == strlen(src)
      new_symbols == realloc(c.active_symbols, c.len_active_symbols + len + 1)
      cat == strcat(new_symbols, src)
      total == c.len_active_symbols + len
  IN  IF alloc_ok
      THEN [conf |-> [c EXCEPT !.len_active_symbols = total,
                               !.active_symbols = cat],
            ret |-> len,
            failed |-> FALSE,
            assert |-> (total < Len(cat) /\ cat[total + 1] = 0)]
      ELSE [conf |-> [c EXCEPT !.active_symbols = << >>],
            ret |-> 0,
            failed |-> TRUE,
            assert |-> TRUE]

\* the symbol sets with the bug of printing from the last node back
usage_symbol_sets_reversed(llist) ==
  [p \in 1..Len(llist) |->
     Line("symbol_set", llist[Len(llist) + 1 - p].name,
          CStr(llist[Len(llist) + 1 - p].data))]

\* the lines usage(symbol_sets, conf) prints: every node, from the root on
usage_symbol_sets(llist) ==
  [p \in 1..Len(llist) |->
     Line("symbol_set", llist[p].name, CStr(llist[p].data))]

\* usage(brief, conf)
usage_brief == <<Line("usage", "", << >>)>>

\* usage(full, conf): the brief line, the text and the symbol sets
usage_full(llist) ==
  usage_brief \o <<Line("description", "", << >>)>> \o usage_symbol_sets(llist)

\* usage(version, conf)
usage_version == <<Line("version", "", << >>)>>

(***************************************************************************)
(* pwgen.c: main, up to the call of configure.                             *)
(***************************************************************************)
\* exit(status), or the end of the process by a signal
Exit(status) == pc' = "exit" /\ exit_status' = status

main_init_symbol_sets ==
  /\ pc = "main"
  /\ LET llist == init_symbol_sets
     IN  /\ conf' = [conf EXCEPT !.symbol_sets = llist]
         /\ IF list_seek(llist, 1, DEFAULT_symbols) # 0
            THEN pc' = "configure" /\ UNCHANGED exit_status
            ELSE Exit("SIGABRT")
  /\ UNCHANGED <<argv, optidx, argi, out, err, seedVars, genVars, randVars,
                 rand_max, actVars>>

(***************************************************************************)
(* pwgen.c: configure.                                                     *)
(***************************************************************************)
configure_defaults ==
  /\ pc = "configure"
  /\ conf' = [conf EXCEPT !.pwcount = DEFAULT_pwcount,
                          !.pwlen = DEFAULT_pwlen,
                          !.seed_file = DEFAULT_seed_file,
                          !.len_active_symbols = 0,
                          !.active_symbols = calloc(0 + 1)]
  /\ pc' = "getopt"
  /\ UNCHANGED <<argv, optidx, argi, out, err, exit_status, seedVars, genVars,
                 randVars, rand_max, actVars>>

\* the option getopt_long hands out next
HasOption == optidx < Len(getopt_options(argv))

CurOption == getopt_options(argv)[optidx + 1]

AtOption(o) == pc = "getopt" /\ HasOption /\ CurOption.opt = o

\* case 'S' with optarg "help"
option_S_help ==
  /\ AtOption("S")
  /\ CurOption.name = "help"
  /\ out' = out \o usage_symbol_sets(conf.symbol_sets)
  /\ Exit("EXIT_SUCCESS")
  /\ optidx' = optidx + 1
  /\ UNCHANGED <<argv, conf, argi, err, seedVars, genVars, randVars, rand_max,
                 actVars>>

\* case 'S' with the name of a symbol set
option_S_found ==
  /\ AtOption("S")
  /\ CurOption.name # "help"
  /\ LET p == list_seek(conf.symbol_sets, 1, CurOption.name)
     IN  /\ p # 0
         /\ \E alloc_ok \in BOOLEAN :
              LET a == activate_symbols(conf, conf.symbol_sets[p].data, alloc_ok)
              IN  /\ conf' = a.conf
                  /\ IF a.failed
                     THEN /\ err' = Append(err, Line("alloc_failed", "", << >>))
                          /\ Exit("EXIT_FAILURE")
                     ELSE IF ~a.assert
                     THEN UNCHANGED err /\ Exit("SIGABRT")
                     ELSE UNCHANGED <<err, pc, exit_status>>
  /\ optidx' = optidx + 1
  /\ UNCHANGED <<argv, argi, out, seedVars, genVars, randVars, rand_max,
                 actVars>>

\* case 'S' with the bug of going on after the message
option_S_unknown_continues ==
  /\ AtOption("S")
  /\ CurOption.name # "help"
  /\ list_seek(conf.symbol_sets, 1, CurOption.name) = 0
  /\ err' = err \o <<Line("no_such_symbol_set", CurOption.name, << >>),
                     Line("try_help", "", << >>)>>
  /\ optidx' = optidx + 1
  /\ UNCHANGED <<argv, pc, exit_status, conf, argi, out, seedVars, genVars,
                 randVars, rand_max, actVars>>

\* case 'S' with a name list_seek does not find
option_S_unknown ==
  /\ AtOption("S")
  /\ CurOption.name # "help"
  /\ list_seek(conf.symbol_sets, 1, CurOption.name) = 0
  /\ err' = err \o <<Line("no_such_symbol_set", CurOption.name, << >>),
                     Line("try_help", "", << >>)>>
  /\ Exit("EXIT_FAILURE")
  /\ optidx' = optidx + 1
  /\ UNCHANGED <<argv, conf, argi, out, seedVars, genVars, randVars, rand_max,
                 actVars>>

\* case 'c'
option_c ==
  /\ AtOption("c")
  /\ conf' = [conf EXCEPT !.pwcount = atoi(CurOption.text)]
  /\ optidx' = optidx + 1
  /\ UNCHANGED <<argv, pc, argi, out, err, exit_status, seedVars, genVars,
                 randVars, rand_max, actVars>>

\* case 'l'
option_l ==
  /\ AtOption("l")
  /\ conf' = [conf EXCEPT !.pwlen = atoi(CurOption.text)]
  /\ optidx' = optidx + 1
  /\ UNCHANGED <<argv, pc, argi, out, err, exit_status, seedVars, genVars,
                 randVars, rand_max, actVars>>

\* case 'r': realloc fails or the name is copied
option_r ==
  /\ AtOption("r")
  /\ \E alloc_ok \in BOOLEAN :
       IF alloc_ok
       THEN /\ conf' = [conf EXCEPT !.seed_file = CurOption.name]
            /\ UNCHANGED <<err, pc, exit_status>>
       ELSE /\ conf' = [conf EXCEPT !.seed_file = ""]
            /\ err' = Append(err, Line("alloc_failed", "", << >>))
            /\ Exit("EXIT_FAILURE")
  /\ optidx' = optidx + 1
  /\ UNCHANGED <<argv, argi, out, seedVars, genVars, randVars, rand_max,
                 actVars>>

\* case 'h'
option_h ==
  /\ AtOption("h")
  /\ out' = out \o usage_full(conf.symbol_sets)
  /\ Exit("EXIT_SUCCESS")
  /\ optidx' = optidx + 1
  /\ UNCHANGED <<argv, conf, argi, err, seedVars, genVars, randVars, rand_max,
                 actVars>>

\* case 'v'
option_v ==
  /\ AtOption("v")
  /\ out' = out \o usage_version
  /\ Exit("EXIT_SUCCESS")
  /\ optidx' = optidx + 1
  /\ UNCHANGED <<argv, conf, argi, err, seedVars, genVars, randVars, rand_max,
                 actVars>>

\* case '?' with the bug of going on after the messages
option_invalid_continues ==
  /\ AtOption("?")
  /\ err' = err \o <<Line("getopt_error", "", << >>), Line("try_h", "", << >>)>>
  /\ optidx' = optidx + 1
  /\ UNCHANGED <<argv, pc, exit_status, conf, argi, out, seedVars, genVars,
                 randVars, rand_max, actVars>>

\* case '?': getopt_long has printed its message, usage(help) follows
option_invalid ==
  /\ AtOption("?")
  /\ err' = err \o <<Line("getopt_error", "", << >>), Line("try_h", "", << >>)>>
  /\ Exit("EXIT_FAILURE")
  /\ optidx' = optidx + 1
  /\ UNCHANGED <<argv, conf, argi, out, seedVars, genVars, randVars, rand_max,
                 actVars>>

\* getopt_long returns -1
options_done ==
  /\ pc = "getopt"
  /\ ~HasOption
  /\ pc' = "nonoptions"
  /\ UNCHANGED <<argv, conf, optidx, argi, out, err, exit_status, seedVars,
                 genVars, randVars, rand_max, actVars>>

\* for (int i = optind; i < argc; ++i) activate_symbols(conf, argv[i]);
activate_nonoption ==
  /\ pc = "nonoptions"
  /\ argi < Len(getopt_nonoptions(argv))
  /\ \E alloc_ok \in BOOLEAN :
       LET src == Append(getopt_nonoptions(argv)[argi + 1].text, 0)
           a == activate_symbols(conf, src, alloc_ok)
       IN  /\ conf' = a.conf
           /\ IF a.failed
              THEN /\ err' = Append(err, Line("alloc_failed", "", << >>))
                   /\ Exit("EXIT_FAILURE")
              ELSE IF ~a.assert
              THEN UNCHANGED err /\ Exit("SIGABRT")
              ELSE UNCHANGED <<err, pc, exit_status>>
  /\ argi' = argi + 1
  /\ UNCHANGED <<argv, optidx, out, seedVars, genVars, randVars, rand_max,
                 actVars>>

\* the end of configure with the bug of leaving out the default symbol set
configure_no_default_symbols ==
  /\ pc = "nonoptions"
  /\ argi >= Len(getopt_nonoptions(argv))
  /\ pc' = "free_symbol_sets"
  /\ UNCHANGED <<argv, conf, err, exit_status, optidx, argi, out, seedVars,
                 genVars, randVars, rand_max, actVars>>

\* the end of configure with the bug of adding the default symbol set to
\* whatever was selected
configure_default_symbols_always ==
  /\ pc = "nonoptions"
  /\ argi >= Len(getopt_nonoptions(argv))
  /\ \E alloc_ok \in BOOLEAN :
       LET p == list_seek(conf.symbol_sets, 1, DEFAULT_symbols)
           a == activate_symbols(conf, conf.symbol_sets[p].data, alloc_ok)
       IN  /\ conf' = a.conf
           /\ IF a.failed
              THEN /\ err' = Append(err, Line("alloc_failed", "", << >>))
                   /\ Exit("EXIT_FAILURE")
              ELSE IF ~a.assert
              THEN UNCHANGED err /\ Exit("SIGABRT")
              ELSE /\ pc' = "free_symbol_sets"
                   /\ UNCHANGED <<err, exit_status>>
  /\ UNCHANGED <<argv, optidx, argi, out, seedVars, genVars, randVars,
                 rand_max, actVars>>

\* if (conf->len_active_symbols == 0) activate the default symbol set
configure_default_symbols ==
  /\ pc = "nonoptions"
  /\ argi >= Len(getopt_nonoptions(argv))
  /\ IF conf.len_active_symbols = 0
     THEN \E alloc_ok \in BOOLEAN :
            LET p == list_seek(conf.symbol_sets, 1, DEFAULT_symbols)
                a == activate_symbols(conf, conf.symbol_sets[p].data, alloc_ok)
            IN  /\ conf' = a.conf
                /\ IF a.failed
                   THEN /\ err' = Append(err, Line("alloc_failed", "", << >>))
                        /\ Exit("EXIT_FAILURE")
                   ELSE IF ~a.assert
                   THEN UNCHANGED err /\ Exit("SIGABRT")
                   ELSE /\ pc' = "free_symbol_sets"
                        /\ UNCHANGED <<err, exit_status>>
     ELSE /\ pc' = "free_symbol_sets"
          /\ UNCHANGED <<conf, err, exit_status>>
  /\ UNCHANGED <<argv, optidx, argi, out, seedVars, genVars, randVars,
                 rand_max, actVars>>

(***************************************************************************)
(* pwgen.c: main, after configure.                                         *)
(***************************************************************************)
\* free_symbol_sets with the bug of a pool that points into the nodes: the
\* bytes of the pool are released with them
main_free_symbol_sets_releases_pool ==
  /\ pc = "free_symbol_sets"
  /\ conf' = [conf EXCEPT !.symbol_sets = free_symbol_sets(conf.symbol_sets),
                          !.active_symbols = malloc(Len(conf.active_symbols))]
  /\ IF /\ conf.len_active_symbols = strlen(conf.active_symbols)
        /\ 0 < conf.len_active_symbols
        /\ conf.len_active_symbols <= rand_max
     THEN pc' = "srand" /\ UNCHANGED exit_status
     ELSE Exit("SIGABRT")
  /\ UNCHANGED <<argv, optidx, argi, out, err, seedVars, genVars, randVars,
                 rand_max, actVars>>

\* free_symbol_sets and the three assertions that follow it
main_free_symbol_sets ==
  /\ pc = "free_symbol_sets"
  /\ conf' = [conf EXCEPT !.symbol_sets = free_symbol_sets(conf.symbol_sets)]
  /\ IF /\ conf.len_active_symbols = strlen(conf.active_symbols)
        /\ 0 < conf.len_active_symbols
        /\ conf.len_active_symbols <= rand_max
     THEN pc' = "srand" /\ UNCHANGED exit_status
     ELSE Exit("SIGABRT")
  /\ UNCHANGED <<argv, optidx, argi, out, err, seedVars, genVars, randVars,
                 rand_max, actVars>>

\* get_RNG_seed: where the value it returns comes from, and what it prints
get_RNG_seed(file_name) ==
  CASE FileStatus(file_name) = "ok" ->
         [src |-> "file", warn |-> << >>]
    [] FileStatus(file_name) = "no_read" ->
         [src |-> "uninitialized", warn |-> << >>]
    [] OTHER ->
         [src |-> "time",
          warn |-> <<Line("perror", file_name, << >>),
                     Line("warning_fallback", "", << >>),
                     Line("warning_predictable", "", << >>)>>]

\* the draws of the C library's generator: a cycle of values of
\* 0 .. RAND_MAX that holds the smallest and the largest ones
RawCycle == <<0, RAND_MAX, 1, 12345, RAND_MAX - 1>>

\* the seeds srand is given
SeedValues == 0..(MaxSeed - 1)

\* srand(seed): the state of the generator after it
srand(seed) == seed % Len(RawCycle)

\* the value the next rand() call yields in state g
rand_value(g) == RawCycle[g + 1]

\* the state of the generator after a rand() call
rand_next(g) == (g + 1) % Len(RawCycle)

\* srand(get_RNG_seed(conf.seed_file)); free(conf.seed_file);
\* the file, the clock or the unwritten variable holds any seed
main_srand ==
  /\ pc = "srand"
  /\ LET s == get_RNG_seed(conf.seed_file)
     IN  /\ seed_src' = s.src
         /\ err' = err \o s.warn
  /\ \E seed \in SeedValues : rng' = srand(seed)
  /\ srand_calls' = srand_calls + 1
  /\ conf' = [conf EXCEPT !.seed_file = ""]
  /\ pc' = "calloc"
  /\ UNCHANGED <<argv, optidx, argi, out, exit_status, genVars, randVars,
                 rand_max, actVars>>

\* n + 1 for a size_t n: a negative n stands for n + 2^64
SizePlusOne(n) == IF n = -1 THEN 0 ELSE n + 1

\* the loop test with the bug of <= for <
SizeLessOrEqual(a, b) == b < 0 \/ a <= b

\* a < b for a size_t b and a size_t a that is not negative
SizeLess(a, b) == b < 0 \/ a < b

\* char *password = calloc(conf.pwlen + 1, 1): NULL when the size is too big
main_calloc ==
  /\ pc = "calloc"
  /\ password' = IF SizePlusOne(conf.pwlen) < 0 THEN << >>
                 ELSE calloc(SizePlusOne(conf.pwlen))
  /\ i' = 0
  /\ pc' = "for"
  /\ UNCHANGED <<argv, conf, optidx, argi, out, err, exit_status, seedVars, j,
                 randVars, rand_max, actVars>>

\* the loop of main with the bug of <= for <
main_for_inclusive ==
  /\ pc = "for"
  /\ i <= conf.pwcount
  /\ j' = 0
  /\ pc' = "str_randomize"
  /\ UNCHANGED <<argv, conf, optidx, argi, out, err, exit_status, seedVars,
                 password, i, randVars, rand_max, actVars>>

\* for (int i = 0 ; i < conf.pwcount ; ++i): the call of str_randomize
main_for ==
  /\ pc = "for"
  /\ i < conf.pwcount
  /\ j' = 0
  /\ pc' = "str_randomize"
  /\ UNCHANGED <<argv, conf, optidx, argi, out, err, exit_status, seedVars,
                 password, i, randVars, rand_max, actVars>>

\* free(password); free(conf.active_symbols); return EXIT_SUCCESS;
main_return ==
  /\ pc = "for"
  /\ ~(i < conf.pwcount)
  /\ password' = << >>
  /\ conf' = [conf EXCEPT !.active_symbols = << >>]
  /\ Exit("EXIT_SUCCESS")
  /\ UNCHANGED <<argv, optidx, argi, out, err, seedVars, i, j, randVars,
                 rand_max, actVars>>

\* puts with the bug of seeding the generator again for the next string
main_puts_reseeds ==
  /\ pc = "puts"
  /\ out' = Append(out, Line("puts", "", CStr(password)))
  /\ i' = i + 1
  /\ \E seed \in SeedValues : rng' = srand(seed)
  /\ srand_calls' = srand_calls + 1
  /\ pc' = "for"
  /\ UNCHANGED <<argv, conf, optidx, argi, err, exit_status, seed_src,
                 password, j, randVars, rand_max, actVars>>

\* puts(password): the bytes up to the first 0 byte and a newline
main_puts ==
  /\ pc = "puts"
  /\ out' = Append(out, Line("puts", "", CStr(password)))
  /\ i' = i + 1
  /\ pc' = "for"
  /\ UNCHANGED <<argv, conf, optidx, argi, err, exit_status, seedVars,
                 password, j, randVars, rand_max, actVars>>

(***************************************************************************)
(* random.c: str_randomize and rand_lt.                                    *)
(***************************************************************************)
\* for (size_t i = 0 ; i < char_count ; ++i): the call rand_lt(len_symbols)
str_randomize_call ==
  /\ pc = "str_randomize"
  /\ SizeLess(j, conf.pwlen)
  /\ upper_bound' = conf.len_active_symbols
  /\ pc' = "rand_lt"
  /\ UNCHANGED <<argv, conf, optidx, argi, out, err, exit_status, seedVars,
                 genVars, reject_bound, r, ret, rejects, rand_max, actVars>>

\* the return with the change of writing str[char_count] = 0 before it
str_randomize_return_terminating ==
  /\ pc = "str_randomize"
  /\ ~SizeLess(j, conf.pwlen)
  /\ password' = MemWrite(password, conf.pwlen, <<0>>)
  /\ pc' = "puts"
  /\ UNCHANGED <<argv, conf, optidx, argi, out, err, exit_status, seedVars,
                 i, j, randVars, rand_max, actVars>>

\* return str;
str_randomize_return ==
  /\ pc = "str_randomize"
  /\ ~SizeLess(j, conf.pwlen)
  /\ pc' = "puts"
  /\ UNCHANGED <<argv, conf, optidx, argi, out, err, exit_status, seedVars,
                 genVars, randVars, rand_max, actVars>>

\* the byte at 0-based index k of buffer s; none is there past its end
MemRead(s, k) == IF k >= 0 /\ k < Len(s) THEN s[k + 1] ELSE Indet

\* the index with the bug of counting from 1
symbol_index_off_by_one(v) == v + 1

\* index into symbols that rand_lt's return value selects
symbol_index(v) == v

\* str[i] = symbols[rand_lt(len_symbols)]: a write past the end of str is
\* undefined, the process ends by a fault or by the abort of a checked build
str_randomize_store ==
  /\ pc = "rand_returned"
  /\ IF j < Len(password)
     THEN /\ password' = MemWrite(password, j,
                           <<MemRead(conf.active_symbols, symbol_index(ret))>>)
          /\ j' = j + 1
          /\ pc' = "str_randomize"
          /\ UNCHANGED exit_status
     ELSE /\ \E signal \in {"SIGSEGV", "SIGABRT"} : Exit(signal)
          /\ UNCHANGED <<password, j>>
  /\ upper_bound' = 0
  /\ reject_bound' = 0
  /\ r' = 0
  /\ ret' = 0
  /\ rejects' = 0
  /\ UNCHANGED <<argv, conf, optidx, argi, out, err, seedVars, i, rand_max,
                 actVars>>

\* reject_bound with the flaw of accepting one raw value per result
rand_lt_reject_bound_least(max, bound) == bound

\* reject_bound with the bug of keeping the remainder alone
rand_lt_reject_bound_remainder(max, bound) == max % bound

\* int reject_bound = RAND_MAX - (RAND_MAX % upper_bound);
rand_lt_reject_bound(max, bound) == max - (max % bound)

\* rand_lt up to its loop: reject_bound and the assertion on it
rand_lt_enter ==
  /\ pc = "rand_lt"
  /\ IF upper_bound <= 0
     THEN /\ Exit("SIGFPE")
          /\ UNCHANGED reject_bound
     ELSE /\ reject_bound' = rand_lt_reject_bound(rand_max, upper_bound)
          /\ IF reject_bound' % upper_bound = 0
             THEN pc' = "rand_loop" /\ UNCHANGED exit_status
             ELSE Exit("SIGABRT")
  /\ rejects' = 0
  /\ UNCHANGED <<argv, conf, optidx, argi, out, err, seedVars, genVars,
                 upper_bound, r, ret, rand_max, actVars>>

\* the loop test with the bug of > for >=
rand_lt_accepts_inclusive(v, bound) == ~(v > bound)

\* while ((r = rand()) >= reject_bound);
rand_lt_accepts(v, bound) == ~(v >= bound)

\* one round of the loop: rand() yields v
rand_lt_draw(v) ==
  /\ pc = "rand_loop"
  /\ r' = v
  /\ rng' = rand_next(rng)
  /\ IF rand_lt_accepts(v, reject_bound)
     THEN pc' = "rand_return" /\ UNCHANGED rejects
     ELSE pc' = "rand_loop" /\ rejects' = Min(rejects + 1, MaxRejects)
  /\ UNCHANGED <<argv, conf, optidx, argi, out, err, exit_status, srand_calls,
                 seed_src, genVars, upper_bound, reject_bound, ret, rand_max,
                 actVars>>

\* the return value with the bug of leaving out the reduction
rand_lt_result_unreduced(v, bound) == v

\* the value rand_lt returns
rand_lt_result(v, bound) == v % bound

\* return r % upper_bound;
rand_lt_return ==
  /\ pc = "rand_return"
  /\ ret' = rand_lt_result(r, upper_bound)
  /\ pc' = "rand_returned"
  /\ UNCHANGED <<argv, conf, optidx, argi, out, err, exit_status, seedVars,
                 genVars, upper_bound, reject_bound, r, rejects, rand_max,
                 actVars>>

(***************************************************************************)
(* The program: one run of main on a command line.                         *)
(***************************************************************************)
Init ==
  /\ argv \in ArgvSet
  /\ pc = "main"
  /\ conf = conf0
  /\ optidx = 0
  /\ argi = 0
  /\ out = << >>
  /\ err = << >>
  /\ exit_status = ""
  /\ srand_calls = 0
  /\ seed_src = "none"
  /\ password = << >>
  /\ i = 0
  /\ j = 0
  /\ upper_bound = 0
  /\ reject_bound = 0
  /\ r = 0
  /\ ret = 0
  /\ rejects = 0
  /\ rand_max = RAND_MAX
  /\ rng = srand(1)
  /\ conf2 = conf0
  /\ src_x = << >>
  /\ src_y = << >>
  /\ act_ret = 0
  /\ AloneIdle

Next ==
  \/ main_init_symbol_sets
  \/ configure_defaults
  \/ option_S_help
  \/ option_S_found
  \/ option_S_unknown
  \/ option_c
  \/ option_l
  \/ option_r
  \/ option_h
  \/ option_v
  \/ option_invalid
  \/ options_done
  \/ activate_nonoption
  \/ configure_default_symbols
  \/ main_free_symbol_sets
  \/ main_srand
  \/ main_calloc
  \/ main_for
  \/ main_return
  \/ main_puts
  \/ str_randomize_call
  \/ str_randomize_return
  \/ str_randomize_store
  \/ rand_lt_enter
  \/ \E v \in {rand_value(rng)} : rand_lt_draw(v)
  \/ rand_lt_return

Spec == Init /\ [][Next]_vars

(***************************************************************************)
(* rand_lt on its own: one call, for any RAND_MAX up to MaxRandMax, any    *)
(* upper_bound of 1 .. RAND_MAX + 1 and any draws of the raw source.       *)
(***************************************************************************)
\* the state before main has run, with nothing on the command line
Idle ==
  /\ argv = << >>
  /\ optidx = 0
  /\ argi = 0
  /\ out = << >>
  /\ err = << >>
  /\ exit_status = ""
  /\ srand_calls = 0
  /\ seed_src = "none"
  /\ password = << >>
  /\ i = 0
  /\ j = 0
  /\ reject_bound = 0
  /\ r = 0
  /\ ret = 0
  /\ rejects = 0
  /\ rng = srand(1)
  /\ act_ret = 0

InitRand ==
  /\ Idle
  /\ pc = "rand_lt"
  /\ rand_max \in 1..MaxRandMax
  /\ upper_bound \in 1..(rand_max + 1)
  /\ conf = conf0
  /\ conf2 = conf0
  /\ src_x = << >>
  /\ src_y = << >>
  /\ AloneIdle

\* one round of the loop with a raw source that yields any v of 0 .. RAND_MAX
rand_lt_draw_any(v) == v \in 0..rand_max /\ rand_lt_draw(v)

NextRand ==
  \/ rand_lt_enter
  \/ \E v \in 0..MaxRandMax : rand_lt_draw_any(v)
  \/ rand_lt_return

SpecRand == InitRand /\ [][NextRand]_vars

\* the program keeps running, and a raw source that is asked again and
\* again yields every value of 0 .. RAND_MAX
FairRand ==
  /\ WF_vars(rand_lt_enter)
  /\ WF_vars(rand_lt_return)
  /\ \A v \in 0..MaxRandMax : WF_vars(rand_lt_draw_any(v))

SpecRandFair == InitRand /\ [][NextRand]_vars /\ FairRand

(***************************************************************************)
(* activate_symbols on its own: from a pool that holds any byte string,    *)
(* src_x and then src_y are activated in conf, and after that src_x        *)
(* followed by src_y is activated at once in conf2.                        *)
(***************************************************************************)
\* the bytes a, b, c, d
SrcBytes == 97..100

\* the byte strings of at most n bytes
ByteStrings(n) == UNION {[1..k -> SrcBytes] : k \in 0..n}

\* a configuration whose pool holds the bytes p
PoolConf(p) ==
  [conf0 EXCEPT !.len_active_symbols = Len(p),
                !.active_symbols = Append(p, 0)]

InitActivate ==
  /\ Idle
  /\ pc = "activate"
  /\ \E p \in ByteStrings(MaxSrcLen) : conf = PoolConf(p) /\ conf2 = conf
  /\ src_x \in ByteStrings(MaxSrcLen)
  /\ src_y \in ByteStrings(MaxSrcLen)
  /\ upper_bound = 0
  /\ rand_max = RAND_MAX
  /\ AloneIdle

\* a call activate_symbols(&c, src) at statement at, which goes on at to
activate_call(at, to, c, src, alloc_ok) ==
  LET a == activate_symbols(c, Append(src, 0), alloc_ok)
  IN  /\ pc = at
      /\ act_ret' = a.ret
      /\ IF a.failed
         THEN /\ err' = Append(err, Line("alloc_failed", "", << >>))
              /\ Exit("EXIT_FAILURE")
         ELSE IF ~a.assert
         THEN UNCHANGED err /\ Exit("SIGABRT")
         ELSE pc' = to /\ UNCHANGED <<err, exit_status>>
      /\ UNCHANGED <<argv, optidx, argi, out, seedVars, genVars, randVars,
                     rand_max, src_x, src_y, aloneVars>>

activate_first ==
  \E alloc_ok \in BOOLEAN :
    /\ activate_call("activate", "activated_x", conf, src_x, alloc_ok)
    /\ conf' = activate_symbols(conf, Append(src_x, 0), alloc_ok).conf
    /\ UNCHANGED conf2

activate_second ==
  \E alloc_ok \in BOOLEAN :
    /\ activate_call("activated_x", "activated_xy", conf, src_y, alloc_ok)
    /\ conf' = activate_symbols(conf, Append(src_y, 0), alloc_ok).conf
    /\ UNCHANGED conf2

activate_joined ==
  \E alloc_ok \in BOOLEAN :
    /\ activate_call("activated_xy", "activated_both", conf2, src_x \o src_y,
                     alloc_ok)
    /\ conf2' = activate_symbols(conf2, Append(src_x \o src_y, 0), alloc_ok).conf
    /\ UNCHANGED conf

NextActivate == activate_first \/ activate_second \/ activate_joined

SpecActivate == InitActivate /\ [][NextActivate]_vars

(***************************************************************************)
(* main up to the end of configure, on command lines that hold symbol      *)
(* arguments alone: up to MaxPoolArgs selectors and literals.              *)
(***************************************************************************)
\* -S num, -S ALPHA, -S alpha
PoolSelectorArgs == {"num", "ALPHA", "alpha"}

\* the non-option arguments: the empty string, A and 0a
PoolLiteralArgs == { << >>, <<65>>, <<48, 97>> }

PoolTokens ==
  {Token("S", n, << >>) : n \in PoolSelectorArgs}
    \cup {Token("", "", t) : t \in PoolLiteralArgs}

PoolArgvSet == UNION {[1..n -> PoolTokens] : n \in 0..MaxPoolArgs}

InitConfigure ==
  /\ argv \in PoolArgvSet
  /\ pc = "main"
  /\ conf = conf0
  /\ optidx = 0
  /\ argi = 0
  /\ out = << >>
  /\ err = << >>
  /\ exit_status = ""
  /\ srand_calls = 0
  /\ seed_src = "none"
  /\ password = << >>
  /\ i = 0
  /\ j = 0
  /\ upper_bound = 0
  /\ reject_bound = 0
  /\ r = 0
  /\ ret = 0
  /\ rejects = 0
  /\ rand_max = RAND_MAX
  /\ rng = srand(1)
  /\ conf2 = conf0
  /\ src_x = << >>
  /\ src_y = << >>
  /\ act_ret = 0
  /\ AloneIdle

NextConfigure ==
  \/ main_init_symbol_sets
  \/ configure_defaults
  \/ option_S_found
  \/ options_done
  \/ activate_nonoption
  \/ configure_default_symbols
  \/ main_free_symbol_sets

SpecConfigure == InitConfigure /\ [][NextConfigure]_vars

(***************************************************************************)
(* fill_ascii_range on its own: one call with any two ASCII bytes, on a    *)
(* buffer like syms of init_symbol_sets that nothing was written to.       *)
(***************************************************************************)
\* the largest ASCII byte, and the largest value of a char
AsciiMax == 127

InitFill ==
  /\ Idle
  /\ pc = "fill_ascii_range"
  /\ conf = conf0
  /\ conf2 = conf0
  /\ src_x = << >>
  /\ src_y = << >>
  /\ upper_bound = 0
  /\ rand_max = RAND_MAX
  /\ range_first \in 0..AsciiMax
  /\ range_last \in 0..AsciiMax
  /\ range_dest = malloc(SymsSize)
  /\ range_ret = 0
  /\ str_before = << >>
  /\ SeekIdle

\* len = fill_ascii_range(syms, first, last): the assertion ends the process
\* when it fails, unless the build, with NDEBUG, has left it out
fill_ascii_range_call ==
  /\ pc = "fill_ascii_range"
  /\ LET f == fill_ascii_range(range_dest, 0, range_first, range_last)
     IN  /\ range_dest' = f.dest
         /\ range_ret' = f.ret
         /\ \/ f.assert /\ pc' = "fill_returned" /\ UNCHANGED exit_status
            \/ ~f.assert /\ pc' = "fill_returned" /\ UNCHANGED exit_status
            \/ ~f.assert /\ Exit("SIGABRT")
  /\ UNCHANGED <<argv, conf, optidx, argi, out, err, seedVars, genVars,
                 randVars, rand_max, conf2, src_x, src_y, act_ret,
                 range_first, range_last, str_before, seekVars>>

NextFill == fill_ascii_range_call

SpecFill == InitFill /\ [][NextFill]_vars

(***************************************************************************)
(* str_randomize on its own: one call str_randomize(password, pwlen,       *)
(* active_symbols, len_active_symbols) on a buffer of pwlen + 1 bytes that *)
(* holds any bytes, 0 or x, with a pool of one or of three symbols and the *)
(* generator in any state.  At puts the call has returned.                 *)
(***************************************************************************)
InitRandomize ==
  /\ argv = << >>
  /\ pc = "str_randomize"
  /\ \E n \in 0..MaxStrLen : \E p \in {<<97>>, <<97, 98, 99>>} :
       /\ conf = [PoolConf(p) EXCEPT !.pwlen = n]
       /\ password \in [1..(n + 1) -> {0, 120}]
  /\ str_before = password
  /\ optidx = 0
  /\ argi = 0
  /\ out = << >>
  /\ err = << >>
  /\ exit_status = ""
  /\ srand_calls = 1
  /\ seed_src = "file"
  /\ i = 0
  /\ j = 0
  /\ upper_bound = 0
  /\ reject_bound = 0
  /\ r = 0
  /\ ret = 0
  /\ rejects = 0
  /\ rand_max = RAND_MAX
  /\ rng \in 0..(Len(RawCycle) - 1)
  /\ conf2 = conf0
  /\ src_x = << >>
  /\ src_y = << >>
  /\ act_ret = 0
  /\ range_first = 0
  /\ range_last = 0
  /\ range_dest = << >>
  /\ range_ret = 0
  /\ SeekIdle

NextRandomize ==
  \/ str_randomize_call
  \/ str_randomize_return
  \/ str_randomize_store
  \/ rand_lt_enter
  \/ \E v \in {rand_value(rng)} : rand_lt_draw(v)
  \/ rand_lt_return

SpecRandomize == InitRandomize /\ [][NextRandomize]_vars

(***************************************************************************)
(* list_seek on its own: one call on a list of up to MaxListLen nodes      *)
(* whose names differ in case only, from any node of the list or from      *)
(* NULL, with one of these names or another one as the key.                *)
(***************************************************************************)
\* the names of the nodes
SeekNames == {"ALPHA", "alpha", "Alpha"}

\* the keys: the names of the nodes and a name no node has
SeekKeys == SeekNames \cup {"num"}

\* the lists of up to n nodes, each with a name and no symbols
SeekLists(n) ==
  UNION {[1..k -> {mknode(name, <<0>>, 0) : name \in SeekNames}] : k \in 0..n}

InitSeek ==
  /\ Idle
  /\ pc = "list_seek"
  /\ conf = conf0
  /\ conf2 = conf0
  /\ src_x = << >>
  /\ src_y = << >>
  /\ upper_bound = 0
  /\ rand_max = RAND_MAX
  /\ range_first = 0
  /\ range_last = 0
  /\ range_dest = << >>
  /\ range_ret = 0
  /\ str_before = << >>
  /\ seek_llist \in SeekLists(MaxListLen)
  /\ seek_pos \in 0..Len(seek_llist)
  /\ seek_key \in SeekKeys
  /\ seek_ret = 0

\* q = list_seek(pos, key)
list_seek_call ==
  /\ pc = "list_seek"
  /\ seek_ret' = list_seek(seek_llist, seek_pos, seek_key)
  /\ pc' = "seek_returned"
  /\ UNCHANGED <<argv, conf, optidx, argi, out, err, exit_status, seedVars,
                 genVars, randVars, rand_max, conf2, src_x, src_y, act_ret,
                 range_first, range_last, range_dest, range_ret, str_before,
                 seek_llist, seek_pos, seek_key>>

NextSeek == list_seek_call

SpecSeek == InitSeek /\ [][NextSeek]_vars

(***************************************************************************)
(* Claims.                                                                 *)
(***************************************************************************)
\* rand_lt has computed reject_bound and is in or past its loop
InRandLoop == pc \in {"rand_loop", "rand_return", "rand_returned"}

\* the raw values the loop of rand_lt accepts
AcceptedRaw == {v \in 0..rand_max : rand_lt_accepts(v, reject_bound)}

\* the accepted raw values that rand_lt turns into the result k
RawFor(k) == {v \in AcceptedRaw : rand_lt_result(v, upper_bound) = k}

\* C1: for every upper_bound of 1 .. RAND_MAX + 1 and every sequence of raw
\* draws, a value rand_lt returns is at least 0 and less than upper_bound.
C1_ResultBelowBound ==
  pc = "rand_returned" => (ret >= 0 /\ ret < upper_bound)

\* a call has returned the largest index, upper_bound - 1, after a rejected
\* draw
C1_Witness ==
  /\ pc = "rand_returned"
  /\ upper_bound > 1
  /\ ret = upper_bound - 1
  /\ rejects > 0

\* C2 as stated: for every upper_bound of 1 .. RAND_MAX + 1, reject_bound is
\* a multiple of upper_bound and every result k of 0 .. upper_bound - 1 comes
\* from the same number of accepted raw values, at least one.
C2_UniformUpToMaxPlusOne ==
  InRandLoop =>
    /\ reject_bound % upper_bound = 0
    /\ \A k \in 0..(upper_bound - 1) :
         /\ Cardinality(RawFor(k)) = Cardinality(RawFor(0))
         /\ Cardinality(RawFor(k)) >= 1

\* C2 amended: the same for every upper_bound of 1 .. RAND_MAX; for
\* upper_bound = RAND_MAX + 1 reject_bound is 0 and no raw value is accepted.
C2_UniformUpToMax ==
  InRandLoop =>
    /\ reject_bound % upper_bound = 0
    /\ upper_bound <= rand_max =>
         \A k \in 0..(upper_bound - 1) :
           /\ Cardinality(RawFor(k)) = Cardinality(RawFor(0))
           /\ Cardinality(RawFor(k)) >= 1
    /\ upper_bound = rand_max + 1 => AcceptedRaw = {}

\* the loop runs with an upper_bound that does not divide RAND_MAX + 1, where
\* some raw values are rejected and every result has two or more raw values
C2_Witness ==
  /\ pc = "rand_loop"
  /\ upper_bound <= rand_max
  /\ (rand_max + 1) % upper_bound # 0
  /\ AcceptedRaw # 0..rand_max
  /\ Cardinality(RawFor(upper_bound - 1)) >= 2

\* C3 as stated: with a raw source that yields every value again and again,
\* every call with 0 < upper_bound <= RAND_MAX + 1 returns.
C3_ReturnsUpToMaxPlusOne == <>(pc = "rand_returned")

\* C3 amended: with such a raw source every call with
\* 0 < upper_bound <= RAND_MAX returns.
C3_ReturnsUpToMax ==
  (pc = "rand_lt" /\ upper_bound <= rand_max) ~> (pc = "rand_returned")

\* a call has returned after as many rejected draws as are counted
C3_Witness ==
  /\ pc = "rand_returned"
  /\ upper_bound <= rand_max
  /\ rejects = MaxRejects

(***************************************************************************)
(* Whole runs: what the command line asks for, and what was written.       *)
(***************************************************************************)
IsPuts(l) == l.kind = "puts"

\* the generated strings written to stdout so far, in the order written
Generated == SelectSeq(out, IsPuts)

\* main has come back from configure and has not ended
Generating ==
  pc \in {"free_symbol_sets", "srand", "calloc", "for", "str_randomize",
          "rand_lt", "rand_loop", "rand_return", "rand_returned", "puts"}

OptionGiven(o) == \E k \in 1..Len(argv) : argv[k].opt = o

SelectorGiven(n) == \E k \in 1..Len(argv) : argv[k].opt = "S" /\ argv[k].name = n

\* the names of the catalog
CatalogNames == {init_symbol_sets[p].name : p \in 1..Len(init_symbol_sets)}

IsUnknownSelector(t) ==
  t.opt = "S" /\ t.name # "help" /\ t.name \notin CatalogNames

\* the number the last option o on the command line gives, or else dflt
Requested(o, dflt) ==
  LET ks == {k \in 1..Len(argv) : argv[k].opt = o}
  IN  IF ks = {} THEN dflt
      ELSE atoi(argv[CHOOSE k \in ks : \A m \in ks : m <= k].text)

RequestedCount == Requested("c", 1)

RequestedLength == Requested("l", 8)

\* the arguments that name what goes into the pool
IsPoolArg(t) == t.opt \in {"S", ""}

PoolArgs == SelectSeq(argv, IsPoolArg)

\* no help or version option, no option getopt_long rejects, every selector
\* known, no allocation has failed
NormalRun ==
  /\ ~OptionGiven("h") /\ ~OptionGiven("v") /\ ~OptionGiven("?")
  /\ \A k \in 1..Len(argv) :
       argv[k].opt = "S" => argv[k].name \in CatalogNames
  /\ \A k \in 1..Len(err) : err[k].kind # "alloc_failed"

\* the bytes of the active pool
PoolBytes ==
  {conf.active_symbols[k + 1] : k \in 0..(conf.len_active_symbols - 1)}

C5_BytesFromPool ==
  /\ Generating =>
       /\ \A k \in 1..Len(Generated) : \A m \in 1..Len(Generated[k].text) :
            Generated[k].text[m] \in PoolBytes
       /\ pc \in {"str_randomize", "rand_lt", "rand_loop", "rand_return",
                  "rand_returned", "puts"} =>
            \A m \in 1..j : MemRead(password, m - 1) \in PoolBytes
  /\ PoolArgs = <<Token("", "", <<48>>)>> =>
       \A k \in 1..Len(Generated) :
         Generated[k].text = [m \in 1..RequestedLength |-> 48]
  /\ PoolArgs = <<Token("S", "num", << >>)>> =>
       \A k \in 1..Len(Generated) :
         /\ Len(Generated[k].text) = RequestedLength
         /\ \A m \in 1..RequestedLength : Generated[k].text[m] \in 48..57

\* a run with the one selector num has ended after a string of 8 digits that
\* are not all the same
C5_Witness ==
  /\ pc = "exit"
  /\ argv = <<Token("S", "num", << >>)>>
  /\ Len(Generated) = 1
  /\ Len(Generated[1].text) = 8
  /\ \A m \in 1..8 : Generated[1].text[m] \in 48..57
  /\ \E m \in 1..8 : Generated[1].text[m] # Generated[1].text[1]

\* the catalog entry asciipns
AsciipnsEntry == init_symbol_sets[list_seek(init_symbol_sets, 1, "asciipns")]

\* C6: with no selector and no literal on the command line, the pool that
\* configure leaves holds the bytes 0x21 .. 0x7E in this order, which are the
\* characters of the catalog entry asciipns, and its count is that entry's
\* count, 94.
C6_DefaultPool ==
  (Generating /\ PoolArgs = << >>) =>
    /\ CStr(conf.active_symbols) = [k \in 1..94 |-> 32 + k]
    /\ CStr(conf.active_symbols) = CStr(AsciipnsEntry.data)
    /\ conf.len_active_symbols = AsciipnsEntry.size
    /\ conf.len_active_symbols = 94

\* configure has come back with the default pool on a command line of two
\* options that name no symbols
C6_Witness ==
  /\ pc = "free_symbol_sets"
  /\ Len(argv) = 2
  /\ PoolArgs = << >>
  /\ conf.len_active_symbols = 94
  /\ conf.active_symbols[1] = 33
  /\ conf.active_symbols[94] = 126

\* the names of the catalog in the order init_symbol_sets inserts them
CatalogOrder ==
  <<"asciip", "asciipns", "num", "ALPHA", "alpha", "Alpha", "ALNUM", "alnum",
    "Alnum", "punct">>

\* stdout holds one line per catalog entry, name and contents, in the order
\* of insertion, and nothing else
CatalogEnumerated ==
  /\ Len(out) = Len(CatalogOrder)
  /\ \A p \in 1..Len(out) :
       /\ out[p].kind = "symbol_set"
       /\ out[p].name = CatalogOrder[p]
       /\ out[p].name = init_symbol_sets[p].name
       /\ out[p].text = CStr(init_symbol_sets[p].data)

\* C7 as stated: whenever help is among the selectors, whatever goes with it,
\* no string is generated and the run ends with a successful exit status
\* after enumerating the catalog.
C7_HelpAlwaysSucceeds ==
  SelectorGiven("help") =>
    /\ ~Generating
    /\ Generated = << >>
    /\ pc = "exit" => (exit_status = "EXIT_SUCCESS" /\ CatalogEnumerated)

\* the option that getopt_long handed out last
LastOption == getopt_options(argv)[optidx]

\* C7 amended: whenever help is among the selectors no string is generated
\* and main never gets past configure; when the options are processed as far
\* as the selector help, the run ends there with a successful exit status
\* after enumerating the catalog, whatever stands after it or among the
\* non-option arguments.  An option before it that ends the run (an unknown
\* selector, an option getopt_long rejects, -h, -v, a failed allocation)
\* decides the exit status and the output instead.
C7_HelpWhenReached ==
  SelectorGiven("help") =>
    /\ ~Generating
    /\ Generated = << >>
    /\ (optidx >= 1 /\ LastOption = Token("S", "help", << >>)) =>
         /\ pc = "exit"
         /\ exit_status = "EXIT_SUCCESS"
         /\ CatalogEnumerated

\* the run has ended at the selector help that stands after the selector
\* num, whose ten digits are in the pool
C7_Witness ==
  /\ pc = "exit"
  /\ argv = <<Token("S", "num", << >>), Token("S", "help", << >>)>>
  /\ optidx = 2
  /\ conf.len_active_symbols = 10
  /\ exit_status = "EXIT_SUCCESS"
  /\ CatalogEnumerated

\* C8: a selector that is not help and names no catalog entry ends the run
\* where it stands: the options are never processed beyond it, once it is
\* processed the process has exited with a failure status after the message
\* that names it, and no string is ever generated on such a command line,
\* whatever was activated before.
C8_UnknownSelectorFatal ==
  \A u \in 1..Len(getopt_options(argv)) :
    IsUnknownSelector(getopt_options(argv)[u]) =>
      /\ optidx <= u
      /\ ~Generating
      /\ Generated = << >>
      /\ optidx = u =>
           /\ pc = "exit"
           /\ exit_status = "EXIT_FAILURE"
           /\ \E k \in 1..Len(err) :
                err[k] = Line("no_such_symbol_set",
                              getopt_options(argv)[u].name, << >>)

\* the run has ended with a failure status at an unknown selector that
\* stands after the selector num, whose ten digits are in the pool
C8_Witness ==
  /\ pc = "exit"
  /\ argv = <<Token("S", "num", << >>), Token("S", "nosuch", << >>)>>
  /\ optidx = 2
  /\ conf.len_active_symbols = 10
  /\ exit_status = "EXIT_FAILURE"
  /\ Generated = << >>

(***************************************************************************)
(* The pool that configure builds.                                         *)
(***************************************************************************)
\* the bytes an argument asks to activate: the characters of the catalog
\* entry a selector names, or the bytes of a literal
ArgBytes(t) ==
  IF t.opt = "S"
  THEN CStr(init_symbol_sets[list_seek(init_symbol_sets, 1, t.name)].data)
  ELSE t.text

\* what the command line activates: every selector and every literal
Asked == [k \in 1..Len(PoolArgs) |-> ArgBytes(PoolArgs[k])]

RECURSIVE SumLen(_, _)
\* the sum of the lengths of the first n byte strings of items
SumLen(items, n) ==
  IF n = 0 THEN 0 ELSE SumLen(items, n - 1) + Len(items[n])

\* everything activated: what was asked for, or the default entry if that
\* is no byte at all
Activated ==
  IF SumLen(Asked, Len(Asked)) = 0
  THEN <<CStr(AsciipnsEntry.data)>>
  ELSE Asked

\* the number of positions of the byte string s that hold b
Multiplicity(b, s) == Cardinality({k \in 1..Len(s) : s[k] = b})

RECURSIVE SumMultiplicity(_, _, _)
\* the sum of the multiplicities of b in the first n byte strings of items
SumMultiplicity(b, items, n) ==
  IF n = 0 THEN 0
  ELSE SumMultiplicity(b, items, n - 1) + Multiplicity(b, items[n])

\* configure has come back to main
Configured == pc \in {"free_symbol_sets", "srand"}

\* C11: after configuration every byte occurs in the pool as many times as
\* it occurs in all the activated catalog entries and literals together, and
\* the count of the pool is the sum of the lengths of everything activated.
C11_MultiplicityKept ==
  Configured =>
    /\ \A b \in 1..127 :
         Multiplicity(b, CStr(conf.active_symbols))
           = SumMultiplicity(b, Activated, Len(Activated))
    /\ conf.len_active_symbols = SumLen(Activated, Len(Activated))

\* after the selectors ALPHA, ALPHA, alpha the pool holds 78 bytes, every
\* upper case letter twice and every lower case letter once
C11_Witness ==
  /\ Configured
  /\ argv = <<Token("S", "ALPHA", << >>), Token("S", "ALPHA", << >>),
              Token("S", "alpha", << >>)>>
  /\ conf.len_active_symbols = 78
  /\ Len(CStr(conf.active_symbols)) = 78
  /\ \A b \in 65..90 : Multiplicity(b, CStr(conf.active_symbols)) = 2
  /\ \A b \in 97..122 : Multiplicity(b, CStr(conf.active_symbols)) = 1

\* the next step of configure calls activate_symbols
ActivateStep ==
  \/ /\ AtOption("S")
     /\ CurOption.name # "help"
     /\ list_seek(conf.symbol_sets, 1, CurOption.name) # 0
  \/ /\ pc = "nonoptions"
     /\ (argi < Len(getopt_nonoptions(argv)) \/ conf.len_active_symbols = 0)

\* the bytes that call is to append
ActivateSrc ==
  IF pc = "getopt"
  THEN CStr(conf.symbol_sets[list_seek(conf.symbol_sets, 1, CurOption.name)].data)
  ELSE IF argi < Len(getopt_nonoptions(argv))
  THEN getopt_nonoptions(argv)[argi + 1].text
  ELSE CStr(conf.symbol_sets[list_seek(conf.symbol_sets, 1, "asciipns")].data)

\* C12: a call of activate_symbols either appends all of its bytes to the
\* pool and returns, or, when the storage cannot grow, ends the process at
\* that call: the pool storage is released, the message is written, the exit
\* status is a failure, and no string has been written.  It never returns
\* with a pool that is not fully grown.  Nothing happens after the process
\* has ended, so no string is generated afterwards.
C12_AllocFailureFatal ==
  /\ [][ActivateStep =>
         \/ /\ pc' = "exit"
            /\ exit_status' = "EXIT_FAILURE"
            /\ conf'.active_symbols = << >>
            /\ err' = Append(err, Line("alloc_failed", "", << >>))
            /\ out' = out
            /\ SelectSeq(out', IsPuts) = << >>
         \/ /\ pc' # "exit"
            /\ err' = err
            /\ CStr(conf'.active_symbols)
                 = CStr(conf.active_symbols) \o ActivateSrc
            /\ conf'.len_active_symbols
                 = conf.len_active_symbols + Len(ActivateSrc)]_vars
  /\ [][pc # "exit"]_vars

\* the storage could not grow for the literal ab after the selector num had
\* been activated: the process has ended with the pool released
C12_Witness ==
  /\ pc = "exit"
  /\ argv = <<Token("S", "num", << >>), Token("", "", <<97, 98>>)>>
  /\ argi = 1
  /\ conf.len_active_symbols = 10
  /\ conf.active_symbols = << >>
  /\ exit_status = "EXIT_FAILURE"
  /\ err = <<Line("alloc_failed", "", << >>)>>
  /\ Generated = << >>

\* the file the command line names as the source of the seed
RequestedSeedFile ==
  LET ks == {k \in 1..Len(argv) : argv[k].opt = "r"}
  IN  IF ks = {} THEN DEFAULT_seed_file
      ELSE argv[CHOOSE k \in ks : \A m \in ks : m <= k].name

\* stderr holds the warning of the fallback to the system time
SeedWarningGiven ==
  \E k \in 1..Len(err) : err[k].kind = "warning_fallback"

\* C13: when the file that is to give the seed cannot be opened or cannot be
\* read, a warning is written and the seed is taken from the system time; the
\* run then goes on and writes all its strings, with a successful exit
\* status; and the seed never comes from a variable that was not written.
C13_SeedFallback ==
  /\ seed_src # "uninitialized"
  /\ (srand_calls >= 1 /\ FileStatus(RequestedSeedFile) # "ok") =>
       /\ seed_src = "time"
       /\ SeedWarningGiven
       /\ (pc = "exit" /\ RequestedLength >= 0) =>
            /\ exit_status = "EXIT_SUCCESS"
            /\ Len(Generated) = Max(RequestedCount, 0)

\* a run whose seed file opens but cannot be read has ended after writing its
\* string: the seed came from the variable fread did not write, and no
\* warning was given
C13_Witness ==
  /\ pc = "exit"
  /\ argv = <<Token("r", "unreadable", << >>)>>
  /\ srand_calls = 1
  /\ seed_src = "uninitialized"
  /\ err = << >>
  /\ exit_status = "EXIT_SUCCESS"
  /\ Len(Generated) = 1

\* C14: the generator is seeded at most once in a run, and exactly once in a
\* run that generates: srand has been called once whenever main is at or
\* past the allocation of the buffer, so before the first call of rand_lt
\* and before every draw, and once a string is on stdout; srand is called
\* only while no seed has been given, and a step that draws from the
\* generator leaves the seeding as it is.
C14_SeededOnce ==
  /\ [](srand_calls <= 1)
  /\ [](pc \in {"calloc", "for", "str_randomize", "rand_lt", "rand_loop",
                "rand_return", "rand_returned", "puts"} => srand_calls = 1)
  /\ [](Generated # << >> => srand_calls = 1)
  /\ [][srand_calls' # srand_calls =>
         (pc = "srand" /\ srand_calls = 0 /\ srand_calls' = 1)]_vars
  /\ [][pc = "rand_loop" =>
         (srand_calls = 1 /\ srand_calls' = 1 /\ rng' = rand_next(rng))]_vars

\* a run has ended after two strings, with one call of srand
C14_Witness ==
  /\ pc = "exit"
  /\ exit_status = "EXIT_SUCCESS"
  /\ Len(Generated) = 2
  /\ Len(Generated[1].text) = 8
  /\ srand_calls = 1

(***************************************************************************)
(* The catalog.                                                            *)
(***************************************************************************)
\* the bytes a, a + 1, .. , b
Range(a, b) == [k \in 1..(b - a + 1) |-> a + k - 1]

\* main holds the catalog: init_symbol_sets has run, free_symbol_sets has not
CatalogBuilt == pc \in {"configure", "getopt", "nonoptions", "free_symbol_sets"}

\* the characters the ten entries are to hold, in the order of insertion
CatalogContents ==
  <<Range(32, 126), Range(33, 126), Range(48, 57), Range(65, 90),
    Range(97, 122), Range(65, 90) \o Range(97, 122),
    Range(65, 90) \o Range(48, 57), Range(97, 122) \o Range(48, 57),
    (Range(65, 90) \o Range(97, 122)) \o Range(48, 57),
    ((Range(33, 47) \o Range(58, 64)) \o Range(91, 96)) \o Range(123, 126)>>

\* C15: after init_symbol_sets the catalog holds exactly the ten entries
\* asciip, asciipns, num, ALPHA, alpha, Alpha, ALNUM, alnum, Alnum, punct in
\* this order, each with the characters named above (punct its four ranges
\* one after the other), terminated and with its size equal to their number;
\* no name occurs twice; and the symbol sets are printed in this order.
C15_CatalogContents ==
  /\ CatalogBuilt =>
       /\ Len(conf.symbol_sets) = 10
       /\ \A p \in 1..10 :
            /\ conf.symbol_sets[p].name = CatalogOrder[p]
            /\ CStr(conf.symbol_sets[p].data) = CatalogContents[p]
            /\ conf.symbol_sets[p].size = Len(CatalogContents[p])
            /\ Len(conf.symbol_sets[p].data) = conf.symbol_sets[p].size + 1
       /\ \A p, q \in 1..10 :
            conf.symbol_sets[p].name = conf.symbol_sets[q].name => p = q
  /\ \A p \in 1..Len(out) : \A q \in 1..10 :
       (out[p].kind = "symbol_set" /\ out[p].name = CatalogOrder[q]) =>
         /\ out[p].text = CatalogContents[q]
         /\ p >= q
         /\ out[p - q + 1].name = CatalogOrder[1]

\* configure is at its options with the catalog of ten entries, the last of
\* which is punct with its 32 characters
C15_Witness ==
  /\ pc = "getopt"
  /\ Len(conf.symbol_sets) = 10
  /\ conf.symbol_sets[10].name = "punct"
  /\ conf.symbol_sets[10].size = 32
  /\ conf.symbol_sets[1].data[1] = 32

\* the catalog entry list_seek finds for a name
Entry(name) == conf.symbol_sets[list_seek(conf.symbol_sets, 1, name)]

\* the composite entries and the two entries each is made of
Composites ==
  {<<"Alpha", "ALPHA", "alpha">>, <<"ALNUM", "ALPHA", "num">>,
   <<"alnum", "alpha", "num">>, <<"Alnum", "Alpha", "num">>}

\* C16: every composite entry holds the characters of its first constituent
\* followed by those of its second one, as list_seek finds them by name in
\* the catalog, and its size is the sum of their sizes.
C16_CompositesConcatenate ==
  CatalogBuilt =>
    \A c \in Composites :
      /\ list_seek(conf.symbol_sets, 1, c[1]) # 0
      /\ list_seek(conf.symbol_sets, 1, c[2]) # 0
      /\ list_seek(conf.symbol_sets, 1, c[3]) # 0
      /\ CStr(Entry(c[1]).data)
           = CStr(Entry(c[2]).data) \o CStr(Entry(c[3]).data)
      /\ Entry(c[1]).size = Entry(c[2]).size + Entry(c[3]).size
      /\ Entry(c[1]).size = Len(CStr(Entry(c[1]).data))

\* the catalog is built and Alnum holds 62 characters, from A to 9
C16_Witness ==
  /\ pc = "configure"
  /\ Entry("Alnum").size = 62
  /\ Entry("Alnum").data[1] = 65
  /\ Entry("Alnum").data[27] = 97
  /\ Entry("Alnum").data[62] = 57

\* C17: for all ASCII bytes first <= last, fill_ascii_range returns (its
\* assertion holds), the value it returns is last - first + 1, it has
\* written that many bytes and no more, and the byte at position i is
\* first + i: the bytes start at first, grow by 1 per position and end at
\* last.
C17_FillRange ==
  range_first <= range_last =>
    /\ pc # "exit"
    /\ pc = "fill_returned" =>
         /\ range_ret = range_last - range_first + 1
         /\ \A k \in 0..(range_ret - 1) :
              range_dest[k + 1] = range_first + k
         /\ range_dest[1] = range_first
         /\ range_dest[range_ret] = range_last
         /\ \A k \in 1..(range_ret - 1) :
              range_dest[k + 1] = range_dest[k] + 1
         /\ \A k \in (range_ret + 1)..Len(range_dest) :
              range_dest[k] = Indet

\* the call for the digits has returned 10
C17_Witness ==
  /\ pc = "fill_returned"
  /\ range_first = 48
  /\ range_last = 57
  /\ range_ret = 10
  /\ SubSeq(range_dest, 1, 10) = <<48, 49, 50, 51, 52, 53, 54, 55, 56, 57>>

\* C18 as stated: when str_randomize has returned, positions 0 .. length - 1
\* of the buffer hold bytes of the pool and position length holds the
\* terminator, so the buffer holds a string of exactly length bytes,
\* whatever position length held before the call.
C18_WritesTerminator ==
  pc = "puts" =>
    /\ \A k \in 0..(conf.pwlen - 1) : MemRead(password, k) \in PoolBytes
    /\ MemRead(password, conf.pwlen) = 0
    /\ strlen(password) = conf.pwlen

\* C18 amended: when str_randomize has returned, positions 0 .. length - 1
\* of the buffer hold bytes of the pool and every other position, position
\* length among them, holds what it held before the call; the buffer holds a
\* string of exactly length bytes if and only if position length held the
\* terminator before the call.
C18_TerminatorLeft ==
  pc = "puts" =>
    /\ Len(password) = Len(str_before)
    /\ \A k \in 0..(conf.pwlen - 1) : MemRead(password, k) \in PoolBytes
    /\ \A k \in conf.pwlen..(Len(password) - 1) :
         MemRead(password, k) = MemRead(str_before, k)
    /\ (strlen(password) = conf.pwlen) <=> (MemRead(str_before, conf.pwlen) = 0)

\* a call for two bytes has returned on a buffer that held xxx: its third
\* byte is still x, and no terminator is in the buffer
C18_Witness ==
  /\ pc = "puts"
  /\ conf.pwlen = 2
  /\ str_before = <<120, 120, 120>>
  /\ password[1] \in PoolBytes
  /\ password[2] \in PoolBytes
  /\ password[3] = 120
  /\ strlen(password) = 3

\* the raw values the loop of rand_lt rejects
RejectedRaw == (0..rand_max) \ AcceptedRaw

\* C19 as stated: for every upper_bound of 1 .. RAND_MAX + 1 the accepted
\* raw values [0, reject_bound) are more than a third of the RAND_MAX + 1 raw
\* values, 3 * reject_bound > RAND_MAX + 1: the rejected raw values are
\* fewer than twice the accepted ones, which makes the expected number of
\* rejected draws of a call less than 2.
C19_RejectsUpToMaxPlusOne ==
  InRandLoop =>
    /\ 3 * reject_bound > rand_max + 1
    /\ AcceptedRaw = 0..(reject_bound - 1)
    /\ Cardinality(RejectedRaw) < 2 * Cardinality(AcceptedRaw)

\* C19 amended: the same for every upper_bound of 1 .. RAND_MAX, where the
\* accepted raw values are even half of all or more; for upper_bound =
\* RAND_MAX + 1 reject_bound is 0 and every raw value is rejected.
C19_RejectsUpToMax ==
  InRandLoop =>
    /\ AcceptedRaw = 0..(reject_bound - 1)
    /\ upper_bound <= rand_max =>
         /\ 3 * reject_bound > rand_max + 1
         /\ 2 * reject_bound >= rand_max + 1
         /\ Cardinality(RejectedRaw) < 2 * Cardinality(AcceptedRaw)
    /\ upper_bound = rand_max + 1 =>
         /\ reject_bound = 0
         /\ RejectedRaw = 0..rand_max

\* the loop runs with the upper_bound that has the most raw values
\* rejected: half of them
C19_Witness ==
  /\ pc = "rand_loop"
  /\ upper_bound <= rand_max
  /\ rand_max > 2
  /\ 2 * reject_bound = rand_max + 1
  /\ Cardinality(RejectedRaw) = Cardinality(AcceptedRaw)
  /\ rejects > 0

\* C20: whatever selectors and literals the command line holds, from the
\* return of configure on the count of the pool is the length of its
\* characters and is more than 0, so the assertions of main hold and
\* generation begins with such a pool; every call of rand_lt is given that
\* count, never 0, and no call ends in a division by 0.
C20_PoolNotEmpty ==
  /\ Generating =>
       /\ conf.len_active_symbols = strlen(conf.active_symbols)
       /\ conf.len_active_symbols > 0
  /\ pc \in {"rand_lt", "rand_loop", "rand_return", "rand_returned"} =>
       /\ upper_bound = conf.len_active_symbols
       /\ upper_bound > 0
  /\ exit_status # "SIGFPE"

\* rand_lt is called with the 94 symbols of the default set on a command
\* line of two empty literals
C20_Witness ==
  /\ pc = "rand_lt"
  /\ argv = <<Token("", "", << >>), Token("", "", << >>)>>
  /\ argi = 2
  /\ upper_bound = 94
  /\ conf.len_active_symbols = 94

\* C21 as stated: a call of fill_ascii_range with first > last always ends in
\* the assertion: for no two bytes first > last does the call return.
C21_AlwaysAsserts ==
  range_first > range_last => pc # "fill_returned"

\* C21 amended: a call of fill_ascii_range with first > last writes no byte;
\* it ends in the assertion or returns 0.  The assertion compares the number
\* of bytes written, 0, with last - first + 1, so it holds for
\* first = last + 1, where the call returns 0 in every build; for
\* first > last + 1 it fails, and the call returns 0 only in a build that
\* leaves assertions out.
C21_EmptyRange ==
  range_first > range_last =>
    /\ range_dest = malloc(SymsSize)
    /\ pc = "fill_returned" => range_ret = 0
    /\ pc = "exit" =>
         /\ exit_status = "SIGABRT"
         /\ range_first > range_last + 1
         /\ range_ret = 0
    /\ range_first = range_last + 1 => pc # "exit"

\* the call for the bytes from : to 9 has returned 0 with nothing written
C21_Witness ==
  /\ pc = "fill_returned"
  /\ range_first = 58
  /\ range_last = 57
  /\ range_ret = 0
  /\ range_dest = malloc(SymsSize)

\* C22: list_seek(pos, key) returns the first node at or after pos whose
\* name is key, byte for byte: no node from pos up to the one returned has
\* that name, a node whose name differs in case is passed over, and ALPHA,
\* alpha and Alpha are three entries of the catalog.  When no node from pos
\* on has the name, and when pos is NULL (the empty list), it returns NULL;
\* the call always returns, the process never ends in it.
C22_SeekFirstMatch ==
  /\ pc # "exit"
  /\ pc = "seek_returned" =>
       /\ seek_ret # 0 =>
            /\ seek_pos >= 1
            /\ seek_ret \in seek_pos..Len(seek_llist)
            /\ seek_llist[seek_ret].name = seek_key
            /\ \A q \in seek_pos..(seek_ret - 1) : seek_llist[q].name # seek_key
       /\ seek_ret = 0 =>
            \/ seek_pos = 0
            \/ \A q \in seek_pos..Len(seek_llist) : seek_llist[q].name # seek_key
       /\ seek_llist = << >> => seek_ret = 0
  /\ list_seek(init_symbol_sets, 1, "ALPHA") = 4
  /\ list_seek(init_symbol_sets, 1, "alpha") = 5
  /\ list_seek(init_symbol_sets, 1, "Alpha") = 6

\* the search for ALPHA from the second node of the list ALPHA, alpha, ALPHA
\* has returned the third node
C22_Witness ==
  /\ pc = "seek_returned"
  /\ Len(seek_llist) = 3
  /\ seek_llist[1].name = "ALPHA"
  /\ seek_llist[2].name = "alpha"
  /\ seek_llist[3].name = "ALPHA"
  /\ seek_pos = 2
  /\ seek_key = "ALPHA"
  /\ seek_ret = 3

\* main is past free_symbol_sets and has not ended
PastTeardown ==
  pc \in {"srand", "calloc", "for", "str_randomize", "rand_lt", "rand_loop",
          "rand_return", "rand_returned", "puts"}

\* C23: from the return of configure on no step changes the count of the
\* pool, and none changes its characters (free_symbol_sets, srand and every
\* step of the generation leave them as they are) until main releases the
\* pool when it returns.  free_symbol_sets empties the catalog that was
\* there, the catalog stays empty, no string is written before it, and main
\* never comes back to init_symbol_sets or configure, where the catalog is
\* looked up.
C23_PoolFixedAfterConfigure ==
  /\ [][Generating =>
         /\ conf'.len_active_symbols = conf.len_active_symbols
         /\ \/ conf'.active_symbols = conf.active_symbols
            \/ pc = "for" /\ pc' = "exit" /\ exit_status' = "EXIT_SUCCESS"]_vars
  /\ [][pc = "free_symbol_sets" =>
         /\ Len(conf.symbol_sets) = 10
         /\ conf'.symbol_sets = << >>
         /\ out = << >>]_vars
  /\ [][PastTeardown => (PastTeardown' \/ pc' = "exit")]_vars
  /\ [](PastTeardown => conf.symbol_sets = << >>)
  /\ [](Generated # << >> => conf.symbol_sets = << >>)

\* the second string of a run with the selector num is about to be written:
\* the catalog is empty and the pool still holds the ten digits
C23_Witness ==
  /\ pc = "puts"
  /\ argv = <<Token("S", "num", << >>), Token("c", "", <<50>>)>>
  /\ Len(Generated) = 1
  /\ conf.symbol_sets = << >>
  /\ conf.len_active_symbols = 10
  /\ CStr(conf.active_symbols) = Range(48, 57)

\* the catalog is in use: configure is running
Configuring == pc \in {"configure", "getopt", "nonoptions"}

\* C24: every entry of the catalog, from init_symbol_sets to
\* free_symbol_sets, holds size characters, none of them a terminator or a
\* byte that was not written, and the terminator after them, so that size is
\* the length of data; and no step of configure (a lookup, an activation,
\* the listing of the symbol sets) changes the catalog: names, characters
\* and sizes stay as they are.
C24_EntriesConsistent ==
  /\ [](\A p \in 1..Len(conf.symbol_sets) :
          /\ conf.symbol_sets[p].size = strlen(conf.symbol_sets[p].data)
          /\ conf.symbol_sets[p].size >= 1
          /\ Len(conf.symbol_sets[p].data) = conf.symbol_sets[p].size + 1
          /\ conf.symbol_sets[p].data[conf.symbol_sets[p].size + 1] = 0
          /\ \A k \in 1..conf.symbol_sets[p].size :
               conf.symbol_sets[p].data[k] \in 1..127)
  /\ [](CatalogBuilt => Len(conf.symbol_sets) = 10)
  /\ [][Configuring => conf'.symbol_sets = conf.symbol_sets]_vars

\* the selector num was looked up and activated and the literal ab was
\* activated: the entry num still holds its ten digits
C24_Witness ==
  /\ pc = "nonoptions"
  /\ argv = <<Token("S", "num", << >>), Token("", "", <<97, 98>>)>>
  /\ argi = 1
  /\ conf.len_active_symbols = 12
  /\ Entry("num").size = 10
  /\ Entry("num").data = Append(Range(48, 57), 0)

\* the bytes of the selectors of the command line, in its order
SelectorBytes ==
  [k \in 1..Len(SelectSeq(argv, IsOption)) |->
     ArgBytes(SelectSeq(argv, IsOption)[k])]

\* the bytes of the literals of the command line, in its order
LiteralBytes ==
  [k \in 1..Len(SelectSeq(argv, IsNonOption)) |->
     SelectSeq(argv, IsNonOption)[k].text]

RECURSIVE Concat(_, _)
\* the first n byte strings of items, one after the other
Concat(items, n) ==
  IF n = 0 THEN << >> ELSE Concat(items, n - 1) \o items[n]

\* C25: the pool is made of the characters of all the selectors, in the
\* order of the command line, followed by all the literals, in the order of
\* the command line, however selectors and literals are mixed there: while
\* the options are processed no literal has been activated and the pool
\* holds the selectors processed so far; when the first literal is
\* activated every selector has been; and configure comes back with the
\* selectors followed by the literals (or with the default set if that is
\* no byte at all).
C25_SelectorsBeforeLiterals ==
  /\ pc = "getopt" =>
       /\ argi = 0
       /\ CStr(conf.active_symbols) = Concat(SelectorBytes, optidx)
  /\ argi > 0 => optidx = Len(SelectorBytes)
  /\ pc = "nonoptions" =>
       /\ optidx = Len(SelectorBytes)
       /\ CStr(conf.active_symbols)
            = Concat(SelectorBytes, optidx) \o Concat(LiteralBytes, argi)
  /\ Configured =>
       /\ argi = Len(LiteralBytes)
       /\ CStr(conf.active_symbols)
            = IF SumLen(Asked, Len(Asked)) = 0
              THEN CStr(AsciipnsEntry.data)
              ELSE Concat(SelectorBytes, Len(SelectorBytes))
                     \o Concat(LiteralBytes, Len(LiteralBytes))

\* on the command line 0a -S num A configure has come back with the ten
\* digits followed by 0a and A
C25_Witness ==
  /\ Configured
  /\ argv = <<Token("", "", <<48, 97>>), Token("S", "num", << >>),
              Token("", "", <<65>>)>>
  /\ CStr(conf.active_symbols) = (Range(48, 57) \o <<48, 97>>) \o <<65>>
  /\ conf.len_active_symbols = 13

\* every selector and literal has been processed: configure is at its test
\* of the length of the pool
AtDefaultTest == pc = "nonoptions" /\ argi >= Len(getopt_nonoptions(argv))

\* C26: the default entry is appended exactly when the pool holds no byte
\* after all the selectors and literals were processed.  At that point a pool
\* that holds a byte is left as it is, and an empty pool becomes the default
\* entry (unless its storage cannot grow).  So configure comes back with the
\* default entry when nothing was given and when all that was given are
\* empty literals, and with what was selected and nothing more when a
\* selector or a literal that is not empty was activated.
C26_DefaultIffEmpty ==
  /\ [][AtDefaultTest =>
         IF conf.len_active_symbols = 0
         THEN \/ pc' = "exit" /\ exit_status' = "EXIT_FAILURE"
              \/ /\ pc' = "free_symbol_sets"
                 /\ CStr(conf'.active_symbols) = CStr(AsciipnsEntry.data)
                 /\ conf'.len_active_symbols = AsciipnsEntry.size
         ELSE /\ pc' = "free_symbol_sets"
              /\ conf' = conf]_vars
  /\ [](AtDefaultTest =>
          (conf.len_active_symbols = 0 <=> SumLen(Asked, Len(Asked)) = 0))
  /\ [](Configured =>
          IF \A k \in 1..Len(Asked) : Asked[k] = << >>
          THEN CStr(conf.active_symbols) = CStr(AsciipnsEntry.data)
          ELSE /\ CStr(conf.active_symbols)
                    = Concat(SelectorBytes, Len(SelectorBytes))
                        \o Concat(LiteralBytes, Len(LiteralBytes))
               /\ conf.len_active_symbols = SumLen(Asked, Len(Asked)))

\* configure has come back with the default entry on a command line of three
\* empty literals
C26_Witness ==
  /\ pc = "free_symbol_sets"
  /\ argv = <<Token("", "", << >>), Token("", "", << >>), Token("", "", << >>)>>
  /\ argi = 3
  /\ conf.len_active_symbols = 94
  /\ CStr(conf.active_symbols) = Range(33, 126)

\* an option that ends the run where it stands: help, version, the listing
\* of the symbol sets, an option getopt_long rejects, an unknown selector
IsTerminating(t) ==
  \/ t.opt \in {"h", "v", "?"}
  \/ t.opt = "S" /\ (t.name = "help" \/ t.name \notin CatalogNames)

\* the exit status such an option gives
TerminatingStatus(t) ==
  IF t.opt \in {"h", "v"} \/ (t.opt = "S" /\ t.name = "help")
  THEN "EXIT_SUCCESS"
  ELSE "EXIT_FAILURE"

\* the run has ended with success after the loop of main
EndedGenerated ==
  /\ exit_status = "EXIT_SUCCESS"
  /\ optidx = Len(getopt_options(argv))
  /\ \A u \in 1..optidx : ~IsTerminating(getopt_options(argv)[u])
  /\ out = Generated
  /\ Len(Generated) = Max(RequestedCount, 0)

\* the run has ended with success at help, version or the listing
EndedInformed ==
  /\ exit_status = "EXIT_SUCCESS"
  /\ optidx >= 1
  /\ IsTerminating(LastOption)
  /\ out # << >>
  /\ Generated = << >>

\* the run has ended without success: with a failure status, or by a signal
EndedFailed ==
  /\ exit_status # "EXIT_SUCCESS"
  /\ Generated = << >>

\* C27: a run ends in exactly one of three ways: with success after writing
\* all its strings; with success and no string, at help, version or the
\* listing of the symbol sets; without success and with no string.  So a run
\* that does not end with success has written no string, and a string is
\* written only by a run that is generating or has ended with success.  The
\* options are processed from left to right, never beyond the first one
\* that ends the run, and once that one is processed the run has ended with
\* the status it gives and no string.
C27_ExitOutcomes ==
  /\ pc = "exit" =>
       /\ EndedGenerated \/ EndedInformed \/ EndedFailed
       /\ ~(EndedGenerated /\ EndedInformed)
       /\ ~(EndedGenerated /\ EndedFailed)
       /\ ~(EndedInformed /\ EndedFailed)
  /\ exit_status \notin {"", "EXIT_SUCCESS"} => Generated = << >>
  /\ Generated # << >> =>
       \/ pc \in {"for", "str_randomize", "rand_lt", "rand_loop", "rand_return",
                  "rand_returned", "puts"}
       \/ pc = "exit" /\ exit_status = "EXIT_SUCCESS"
  /\ \A u \in 1..Len(getopt_options(argv)) :
       IsTerminating(getopt_options(argv)[u]) =>
         /\ optidx <= u
         /\ optidx = u =>
              /\ pc = "exit"
              /\ exit_status = TerminatingStatus(getopt_options(argv)[u])
              /\ Generated = << >>

\* the run for two strings has ended with a failure status at an option
\* getopt_long rejects, with no string written
C27_Witness ==
  /\ pc = "exit"
  /\ argv = <<Token("c", "", <<50>>), Token("?", "", << >>)>>
  /\ optidx = 2
  /\ exit_status = "EXIT_FAILURE"
  /\ out = << >>
  /\ err # << >>

\* main is in its loop: in str_randomize, in rand_lt or at puts
InLoopBody ==
  pc \in {"str_randomize", "rand_lt", "rand_loop", "rand_return",
          "rand_returned", "puts"}

\* C28: the count and the length of the run are the values of the last -c
\* and the last -l of the command line.  A normal run with a count of 0 or
\* less never enters the loop of main, writes no string and ends with
\* success.  A normal run with the length 0 never calls rand_lt, so draws
\* nothing from the generator, writes empty lines only, and ends with success
\* after as many of them as the count.
C28_CountAndLengthEdges ==
  /\ Generating =>
       /\ conf.pwcount = RequestedCount
       /\ conf.pwlen = RequestedLength
  /\ (NormalRun /\ RequestedCount <= 0) =>
       /\ ~InLoopBody
       /\ out = << >>
       /\ pc = "exit" => exit_status = "EXIT_SUCCESS"
  /\ (NormalRun /\ RequestedLength = 0) =>
       /\ pc \notin {"rand_lt", "rand_loop", "rand_return", "rand_returned"}
       /\ PastTeardown /\ pc # "srand" => rng \in {srand(seed) : seed \in SeedValues}
       /\ out = Generated
       /\ \A k \in 1..Len(Generated) : Generated[k].text = << >>
       /\ pc = "exit" =>
            /\ exit_status = "EXIT_SUCCESS"
            /\ Len(Generated) = Max(RequestedCount, 0)

\* the run -c 0 -c 2 has written the second of its two strings
C28_Witness ==
  /\ pc = "exit"
  /\ argv = <<Token("c", "", <<48>>), Token("c", "", <<50>>)>>
  /\ conf.pwcount = 2
  /\ exit_status = "EXIT_SUCCESS"
  /\ Len(Generated) = 2

\* C29: while init_symbol_sets builds the catalog every write into syms, by
\* fill_ascii_range and by the two strcpy calls of a composite with their
\* terminators, lands inside its 128 bytes: the writes reach over no more
\* bytes than syms has, so none is dropped and every entry holds what was
\* written for it; and every size given to mknode, which is the size of the
\* entry, is at most 95.
C29_SymsWritesInBounds ==
  /\ init_symbol_sets_run.top <= Len(init_symbol_sets_run.syms)
  /\ init_symbol_sets_run.top <= 128
  /\ \A p \in 1..Len(init_symbol_sets) : init_symbol_sets[p].size <= 95
  /\ CatalogBuilt =>
       /\ conf.symbol_sets = init_symbol_sets
       /\ \A p \in 1..Len(conf.symbol_sets) :
            /\ conf.symbol_sets[p].size <= 95
            /\ conf.symbol_sets[p].size + 1 <= SymsSize
            /\ CStr(conf.symbol_sets[p].data) = CatalogContents[p]

\* the catalog is built: the writes have reached over 95 bytes of syms, the
\* bytes of asciip, the longest entry
C29_Witness ==
  /\ pc = "configure"
  /\ init_symbol_sets_run.top = 95
  /\ Entry("asciip").size = 95
  /\ Entry("Alnum").size = 62
  /\ init_symbol_sets_run.syms[95] = 126

\* the set of the characters of the catalog entry with this name
EntryBytes(name) ==
  UNION {{e.data[k] : k \in 1..e.size} : e \in {Entry(name)}}

\* C30: in the catalog punct and Alnum share no byte and together hold the
\* bytes of asciipns and no other, 32 and 62 of the 94; asciip is the space
\* followed by the characters of asciipns, 95 bytes; and no entry holds a
\* byte twice: each holds as many different bytes as its size.
C30_CatalogSetsConsistent ==
  CatalogBuilt =>
    /\ EntryBytes("punct") \cap EntryBytes("Alnum") = {}
    /\ EntryBytes("punct") \cup EntryBytes("Alnum") = EntryBytes("asciipns")
    /\ Entry("punct").size = 32
    /\ Entry("Alnum").size = 62
    /\ Entry("asciipns").size = 94
    /\ Cardinality(EntryBytes("asciipns")) = 94
    /\ CStr(Entry("asciip").data) = <<32>> \o CStr(Entry("asciipns").data)
    /\ Entry("asciip").size = 95
    /\ \A p \in 1..Len(conf.symbol_sets) :
         Cardinality(EntryBytes(conf.symbol_sets[p].name))
           = conf.symbol_sets[p].size

\* configure has processed its options with the catalog in place: punct
\* holds 32 bytes from ! to ~ and Alnum the 62 letters and digits
C30_Witness ==
  /\ pc = "nonoptions"
  /\ Cardinality(EntryBytes("punct")) = 32
  /\ Cardinality(EntryBytes("Alnum")) = 62
  /\ Entry("punct").data[1] = 33
  /\ Entry("punct").data[32] = 126
  /\ Entry("asciip").data[1] = 32

\* C9: a successful activate_symbols call appends the bytes of src to the
\* pool: the bytes the pool held are a prefix of the new pool and are followed
\* by the bytes of src, the count grows by the length of src, and the call
\* returns the length of src.  conf2 still holds the pool as it was before
\* the first call.
C9_ActivateAppends ==
  /\ pc = "activated_x" =>
       /\ CStr(conf.active_symbols) = CStr(conf2.active_symbols) \o src_x
       /\ conf.len_active_symbols = conf2.len_active_symbols + Len(src_x)
       /\ act_ret = Len(src_x)
  /\ pc = "activated_xy" =>
       /\ CStr(conf.active_symbols)
            = (CStr(conf2.active_symbols) \o src_x) \o src_y
       /\ conf.len_active_symbols
            = conf2.len_active_symbols + Len(src_x) + Len(src_y)
       /\ act_ret = Len(src_y)

\* two bytes were appended to a pool that held two other bytes
C9_Witness ==
  /\ pc = "activated_x"
  /\ CStr(conf2.active_symbols) = <<97, 98>>
  /\ src_x = <<99, 100>>
  /\ conf.len_active_symbols = 4

\* C10: activating x and then y gives the same pool, characters and count, as
\* activating x followed by y at once.
C10_ActivateAssociative ==
  pc = "activated_both" =>
    /\ conf.active_symbols = conf2.active_symbols
    /\ conf.len_active_symbols = conf2.len_active_symbols

\* ab and then cd were activated in one pool, abcd in the other
C10_Witness ==
  /\ pc = "activated_both"
  /\ src_x = <<97, 98>>
  /\ src_y = <<99, 100>>
  /\ CStr(conf2.active_symbols) = <<97, 98, 99, 100>>
  /\ conf2.len_active_symbols = 4

=============================================================================
